---- MODULE Spec2Model ----
(***************************************************************************)
(* Model of the MNSF compliance monitor (core/compliance_monitor.py) and   *)
(* of the GNSS synchronization manager (modules/gnss/gnss_sync.py).        *)
(*                                                                         *)
(* Frequencies are carried in kHz: every band edge of the source is a      *)
(* whole number of kHz (1575.42e6 - 10e6 Hz = 1565420 kHz, ...) and the    *)
(* model checker's integers are 32 bits wide, which 2483500000 Hz exceeds. *)
(* All other parameter values keep the source's unit.                      *)
(***************************************************************************)
EXTENDS Integers, Sequences, FiniteSets, TLC

VARIABLES
    compliance_level,   \* ComplianceMonitor.compliance_level
    rules,              \* ComplianceMonitor.rules (list of RegulatoryRule)
    standards,          \* ComplianceMonitor.standards (the 3GPP json document)
    operations_log,     \* ComplianceMonitor.operations_log
    violations,         \* ComplianceMonitor.violations
    status,             \* GNSSSyncManager.status
    time_data,          \* GNSSSyncManager.time_data
    position_data,      \* GNSSSyncManager.position_data
    ntp_sent,           \* the datagrams handed to ntp_socket.sendto
    sync_msg,           \* the local sync_msg of run_ptp_server
    idle,               \* iterations of run_ptp_server since update_gnss_data
    ret,                \* the last call and the value it returned
    frequency_stability, \* GNSSSyncManager.frequency_stability, where it is set
    violation_file,     \* the lines of /var/log/mnsf/compliance_violations.json
    constructed,        \* whether ComplianceMonitor.__init__ has returned or raised
    loaded,             \* the load methods of the monitor that have succeeded
    framework,          \* the process: running, shutting down or ended
    modules,            \* MNSFFramework.modules: each registered module's record
    late,               \* iterations each server loop began after the shutdown signal
    pc,                 \* where each thread stands within the call it is making
    local               \* the local variables of each thread

\* the fields of the ComplianceMonitor
monitor_vars == <<compliance_level, rules, standards, operations_log, violations>>

\* the fields of the GNSSSyncManager, its socket and its announcer loop
sync_vars == <<status, time_data, position_data, ntp_sent, sync_msg, idle>>

\* what the calls of the monitor and the loops of the sync manager, each
\* taken as a whole, leave alone
proc_vars == <<frequency_stability, violation_file, constructed, loaded,
               framework, modules, pc, local>>

vars == <<compliance_level, rules, standards, operations_log, violations,
          status, time_data, position_data, ntp_sent, sync_msg, idle, ret,
          frequency_stability, violation_file, constructed, loaded, framework,
          modules, late, pc, local>>

-----------------------------------------------------------------------------
(* Program constants *)

\* class ComplianceLevel
ComplianceLevel == {"lab", "test", "production"}

\* 1575.42e6 Hz, the GPS L1 carrier, in kHz
GPS_L1 == 1575420
\* 10e6 Hz, half the width of the GPS L1 window, in kHz
GPS_L1_MARGIN == 10000
\* 2400e6 Hz, in kHz
ISM_LOW == 2400000
\* 2483.5e6 Hz, in kHz
ISM_HIGH == 2483500
\* 1e9 Hz, in kHz
RX_ONLY_HIGH == 1000000
\* max_power at LAB, dBm
LAB_MAX_POWER == -30
\* max_power at the other levels, dBm
DEFAULT_MAX_POWER == 10
\* self.violations[-10:]
RECENT_WINDOW == 10
\* len(recent_violations) >= 3
BLOCK_THRESHOLD == 3
\* self.operations_log[-100:]
REPORT_OPERATIONS == 100
\* self.violations[-50:]
REPORT_VIOLATIONS == 50
\* if count > 5
RETRAIN_COUNT == 5
\* if len(self.violations) > 10
REVIEW_COUNT == 10

-----------------------------------------------------------------------------
(* Helpers for Python's dict and list operations *)

\* `key in d`
Has(d, key) == key \in DOMAIN d

\* {}
EmptyDict == [key \in {} |-> key]

\* lst[-n:]
LastN(lst, n) ==
    IF Len(lst) <= n THEN lst ELSE SubSeq(lst, Len(lst) - n + 1, Len(lst))

\* v.get('operation'): None when the record carries no such key
None == "None"

GetOperation(v) == IF Has(v, "operation") THEN v.operation ELSE None

-----------------------------------------------------------------------------
(* ComplianceMonitor._get_allowed_bands *)

\* variant: the receive-only band is missing from the LAB list
GetAllowedBandsNoReceiveOnly ==
    IF compliance_level = "lab"
    THEN << <<GPS_L1 - GPS_L1_MARGIN, GPS_L1 + GPS_L1_MARGIN>>,
            <<ISM_LOW, ISM_HIGH>> >>
    ELSE << >>

GetAllowedBands ==
    IF compliance_level = "lab"
    THEN << <<GPS_L1 - GPS_L1_MARGIN, GPS_L1 + GPS_L1_MARGIN>>,
            <<ISM_LOW, ISM_HIGH>>,
            <<0, RX_ONLY_HIGH>> >>
    ELSE << >>

\* variant: the band edges are excluded, low < freq < high
InAllowedBandsExclusive(freq) ==
    LET allowed_bands == GetAllowedBands
    IN  \E i \in DOMAIN allowed_bands :
            allowed_bands[i][1] < freq /\ freq < allowed_bands[i][2]

\* any(low <= freq <= high for (low, high) in allowed_bands)
InAllowedBands(freq) ==
    LET allowed_bands == GetAllowedBands
    IN  \E i \in DOMAIN allowed_bands :
            allowed_bands[i][1] <= freq /\ freq <= allowed_bands[i][2]

\* max_power = -30 if self.compliance_level == ComplianceLevel.LAB else 10
MaxPower == IF compliance_level = "lab" THEN LAB_MAX_POWER ELSE DEFAULT_MAX_POWER

\* variant: a request that names no frequency fails the frequency check
FrequencyCheckFailsWhenAbsent(parameters) ==
    ~Has(parameters, "frequency") \/ ~InAllowedBands(parameters.frequency)

\* the frequency branch of _check_rule returns False
FrequencyCheckFails(parameters) ==
    Has(parameters, "frequency") /\ ~InAllowedBands(parameters.frequency)

\* variant: the ceiling itself is refused, tx_power >= max_power
PowerCheckFailsAtCeiling(parameters) ==
    Has(parameters, "tx_power") /\ parameters.tx_power >= MaxPower

\* the power branch of _check_rule returns False
PowerCheckFails(parameters) ==
    Has(parameters, "tx_power") /\ parameters.tx_power > MaxPower

\* variant: the rule FCC_PART_15 tests the frequency only, any other rule
\* the power only
CheckRuleByRule(rule, operation, parameters) ==
    IF rule.id = "FCC_PART_15"
    THEN ~FrequencyCheckFails(parameters)
    ELSE ~PowerCheckFails(parameters)

(* ComplianceMonitor._check_rule: the same two checks for every rule, the   *)
(* frequency check first; the first failing check returns False.           *)
CheckRule(rule, operation, parameters) ==
    IF FrequencyCheckFails(parameters) THEN FALSE
    ELSE IF PowerCheckFails(parameters) THEN FALSE
    ELSE TRUE

-----------------------------------------------------------------------------
(* ComplianceMonitor._check_3gpp_requirement *)

\* self.standards.get('requirements', {})
Requirements ==
    IF Has(standards, "requirements") THEN standards.requirements ELSE EmptyDict

\* the three tests applied to one parameter present in the request
SpecViolated(spec, value) ==
    IF Has(spec, "min") /\ value < spec.min THEN TRUE
    ELSE IF Has(spec, "max") /\ value > spec.max THEN TRUE
    ELSE IF Has(spec, "allowed") /\ value \notin spec.allowed THEN TRUE
    ELSE FALSE

\* variant: `return True` inside the loop, so only the first parameter is tested
CheckRequirementsFirstOnly(requirements, i, parameters) ==
    IF i > Len(requirements) THEN TRUE
    ELSE ~(Has(parameters, requirements[i].param)
            /\ SpecViolated(requirements[i].spec, parameters[requirements[i].param]))

\* variant: a constrained parameter missing from the request fails the check
RECURSIVE CheckRequirementsFailClosed(_, _, _)
CheckRequirementsFailClosed(requirements, i, parameters) ==
    IF i > Len(requirements) THEN TRUE
    ELSE IF ~Has(parameters, requirements[i].param) THEN FALSE
    ELSE IF SpecViolated(requirements[i].spec, parameters[requirements[i].param]) THEN FALSE
    ELSE CheckRequirementsFailClosed(requirements, i + 1, parameters)

\* for param, spec in requirements.items(): ... return False at the first failure
RECURSIVE CheckRequirementsFrom(_, _, _)
CheckRequirementsFrom(requirements, i, parameters) ==
    IF i > Len(requirements) THEN TRUE
    ELSE LET param == requirements[i].param
             spec  == requirements[i].spec
         IN  IF Has(parameters, param) /\ SpecViolated(spec, parameters[param])
             THEN FALSE
             ELSE CheckRequirementsFrom(requirements, i + 1, parameters)

\* requirements = self.standards['requirements'].get(operation, {})
Check3gppRequirement(operation, parameters) ==
    LET requirements ==
            IF Has(standards.requirements, operation)
            THEN standards.requirements[operation] ELSE << >>  \* nothing to iterate
    IN  CheckRequirementsFrom(requirements, 1, parameters)

-----------------------------------------------------------------------------
(* ComplianceMonitor.check_operation: the verdict it builds *)

RuleViolation(rule) ==
    [rule_id |-> rule.id, standard |-> rule.standard,
     description |-> rule.description, penalty |-> rule.penalty]

Violation3gpp(operation) ==
    [rule_id |-> "3GPP_VIOLATION", standard |-> "3GPP",
     description |-> <<"Violates 3GPP requirement for", operation>>,
     penalty |-> "operation_blocked"]

\* hashlib.md5(f"{operation}{json.dumps(parameters)}").hexdigest(): the digest
\* is carried as the pair it is computed from
OperationId(operation, parameters) == <<operation, parameters>>

\* check_result as check_operation first builds it
NewCheckResult(operation, parameters) ==
    [operation    |-> operation,
     parameters   |-> parameters,
     compliant    |-> TRUE,
     violations   |-> << >>,
     operation_id |-> OperationId(operation, parameters)]

\* the body of `if not self._check_rule(...)`
FlagRuleViolation(check_result, rule) ==
    [check_result EXCEPT !.compliant = FALSE,
                         !.violations = Append(@, RuleViolation(rule))]

\* variant: the entry is appended but compliant is left as it was
Flag3gppViolationOnly(check_result, operation) ==
    [check_result EXCEPT !.violations = Append(@, Violation3gpp(operation))]

\* the body of `if not self._check_3gpp_requirement(...)`
Flag3gppViolation(check_result, operation) ==
    [check_result EXCEPT !.compliant = FALSE,
                         !.violations = Append(@, Violation3gpp(operation))]

\* for rule in self.rules: ...
RECURSIVE CheckRulesFrom(_, _)
CheckRulesFrom(i, check_result) ==
    IF i > Len(rules) THEN check_result
    ELSE CheckRulesFrom(i + 1,
            IF ~CheckRule(rules[i], check_result.operation, check_result.parameters)
            THEN FlagRuleViolation(check_result, rules[i])
            ELSE check_result)

\* if operation in self.standards.get('requirements', {}): ...
Check3gpp(check_result) ==
    IF Has(Requirements, check_result.operation)
    THEN IF ~Check3gppRequirement(check_result.operation, check_result.parameters)
         THEN Flag3gppViolation(check_result, check_result.operation)
         ELSE check_result
    ELSE check_result

\* variant: a monitor with a violation on record refuses every request
CheckResultOnceViolated(operation, parameters) ==
    LET check_result == Check3gpp(CheckRulesFrom(1, NewCheckResult(operation, parameters)))
    IN  IF violations # << >>
        THEN [check_result EXCEPT !.compliant = FALSE]
        ELSE check_result

\* the check_result check_operation has built when it logs the operation
CheckResult(operation, parameters) ==
    Check3gpp(CheckRulesFrom(1, NewCheckResult(operation, parameters)))

-----------------------------------------------------------------------------
(* ComplianceMonitor.check_operation: what it logs *)

\* variant: a request whose operation_id is in the trail is not logged again
LoggedOperationsOncePerId(check_result) ==
    IF \E i \in DOMAIN operations_log :
            operations_log[i].operation_id = check_result.operation_id
    THEN operations_log
    ELSE Append(operations_log, check_result)

\* self.operations_log.append(check_result)
LoggedOperations(check_result) == Append(operations_log, check_result)

\* variant: the newest entry is put first, self.violations.insert(0, check_result)
LoggedViolationsNewestFirst(check_result) ==
    IF ~check_result.compliant THEN <<check_result>> \o violations ELSE violations

\* if not check_result['compliant']: self.violations.append(check_result)
LoggedViolations(check_result) ==
    IF ~check_result.compliant THEN Append(violations, check_result) ELSE violations

\* variant: every call loads the regulations again, onto the rules it has
CheckOperationReloads(operation, parameters) ==
    LET check_result == CheckResult(operation, parameters)
    IN  /\ operations_log' = LoggedOperations(check_result)
        /\ violations' = LoggedViolations(check_result)
        /\ ret' = [operation |-> operation, parameters |-> parameters,
                   call |-> "check_operation", result |-> check_result.compliant]
        /\ rules' = rules \o rules
        /\ UNCHANGED <<compliance_level, standards>>
        /\ UNCHANGED sync_vars
        /\ UNCHANGED <<proc_vars, late>>

CheckOperation(operation, parameters) ==
    LET check_result == CheckResult(operation, parameters)
    IN  /\ operations_log' = LoggedOperations(check_result)
        /\ violations' = LoggedViolations(check_result)
        /\ ret' = [call |-> "check_operation", operation |-> operation,
                   parameters |-> parameters, result |-> check_result.compliant]
        /\ UNCHANGED <<compliance_level, rules, standards>>
        /\ UNCHANGED sync_vars
        /\ UNCHANGED <<proc_vars, late>>

-----------------------------------------------------------------------------
(* ComplianceMonitor.enforce_compliance *)

\* variant: the window is one entry too long, self.violations[-11:]
RecentViolationsWide(log, operation) ==
    SelectSeq(LastN(log, RECENT_WINDOW + 1), LAMBDA v : GetOperation(v) = operation)

\* variant: a per-operation history, filtered before it is cut to the last 10
RecentViolationsPerOperation(log, operation) ==
    LastN(SelectSeq(log, LAMBDA v : GetOperation(v) = operation), RECENT_WINDOW)

\* [v for v in self.violations[-10:] if v.get('operation') == operation]
RecentViolations(log, operation) ==
    SelectSeq(LastN(log, RECENT_WINDOW), LAMBDA v : GetOperation(v) = operation)

\* variant: the threshold is one too low, len(recent_violations) >= 2
EscalateEarly(recent_violations) ==
    IF Len(recent_violations) >= BLOCK_THRESHOLD - 1
    THEN [allowed |-> FALSE, action |-> "block",
          message |-> "Operation blocked due to multiple violations",
          violations |-> recent_violations]
    ELSE [allowed |-> TRUE, action |-> "warn",
          message |-> "Operation allowed with compliance warning",
          violations |-> recent_violations]

\* the branch on len(recent_violations) >= 3
Escalate(recent_violations) ==
    IF Len(recent_violations) >= BLOCK_THRESHOLD
    THEN [allowed |-> FALSE, action |-> "block",
          message |-> "Operation blocked due to multiple violations",
          violations |-> recent_violations]
    ELSE [allowed |-> TRUE, action |-> "warn",
          message |-> "Operation allowed with compliance warning",
          violations |-> recent_violations]

\* variant: the violation history is consulted before the verdict
DecideHistoryFirst(compliant, log, operation) ==
    IF Len(RecentViolations(log, operation)) >= BLOCK_THRESHOLD
    THEN Escalate(RecentViolations(log, operation))
    ELSE IF compliant
    THEN [allowed |-> TRUE, action |-> "proceed",
          message |-> "Operation compliant with regulations"]
    ELSE Escalate(RecentViolations(log, operation))

\* the decision, read off the log as check_operation has left it
Decide(compliant, log, operation) ==
    IF compliant
    THEN [allowed |-> TRUE, action |-> "proceed",
          message |-> "Operation compliant with regulations"]
    ELSE Escalate(RecentViolations(log, operation))

\* variant: the window is read before check_operation logs the call
EnforceComplianceWindowFirst(operation, parameters) ==
    LET check_result == CheckResult(operation, parameters)
    IN  /\ operations_log' = LoggedOperations(check_result)
        /\ violations' = LoggedViolations(check_result)
        /\ ret' = [operation |-> operation, parameters |-> parameters,
                   call |-> "enforce_compliance",
                   result |-> Decide(check_result.compliant, violations, operation)]
        /\ UNCHANGED <<compliance_level, rules, standards>>
        /\ UNCHANGED sync_vars
        /\ UNCHANGED <<proc_vars, late>>

EnforceCompliance(operation, parameters) ==
    LET check_result == CheckResult(operation, parameters)
    IN  /\ operations_log' = LoggedOperations(check_result)
        /\ violations' = LoggedViolations(check_result)
        /\ ret' = [call |-> "enforce_compliance", operation |-> operation,
                   parameters |-> parameters,
                   result |-> Decide(check_result.compliant, violations', operation)]
        /\ UNCHANGED <<compliance_level, rules, standards>>
        /\ UNCHANGED sync_vars
        /\ UNCHANGED <<proc_vars, late>>

-----------------------------------------------------------------------------
(* ComplianceMonitor.monitor_gnss_operation.  The file /etc/mnsf/gnss/     *)
(* active.conf is an input: config.readable is whether open() and read()   *)
(* succeed, config.text the set of the four marker strings the text holds. *)

GnssChecks(config) ==
    << [name |-> "Lab mode enabled",          passed |-> "LAB MODE ENABLED" \in config.text],
       [name |-> "Transmission disabled",     passed |-> "enable_throttle_control=true" \in config.text],
       [name |-> "GPS L1 frequency",          passed |-> "1575420000" \in config.text],
       [name |-> "Compliance header present", passed |-> "Compliance Standards:" \in config.text] >>

\* [name for name, passed in checks if not passed]
FailedChecks(checks) ==
    LET failed == SelectSeq(checks, LAMBDA c : ~c.passed)
    IN  [i \in 1..Len(failed) |-> failed[i].name]

GnssViolation(failed) ==
    [module |-> "gnss", failed_checks |-> failed, action |-> "shutdown_recommended"]

\* variant: a configuration that cannot be read is logged as a violation
MonitorGnssOperationLogsUnreadable(config) ==
    /\ IF ~config.readable
       THEN /\ ret' = [call |-> "monitor_gnss_operation", result |-> FALSE]
            /\ violations' = Append(violations, GnssViolation(<< >>))
       ELSE LET checks == GnssChecks(config)
                all_passed == \A i \in DOMAIN checks : checks[i].passed
            IN  /\ violations' = IF ~all_passed
                                 THEN Append(violations, GnssViolation(FailedChecks(checks)))
                                 ELSE violations
                /\ ret' = [call |-> "monitor_gnss_operation", result |-> all_passed]
    /\ UNCHANGED <<compliance_level, rules, standards, operations_log>>
    /\ UNCHANGED sync_vars
    /\ UNCHANGED <<proc_vars, late>>

MonitorGnssOperation(config) ==
    /\ IF ~config.readable
       THEN /\ ret' = [call |-> "monitor_gnss_operation", result |-> FALSE]
            /\ UNCHANGED violations
       ELSE LET checks == GnssChecks(config)
                all_passed == \A i \in DOMAIN checks : checks[i].passed
            IN  /\ violations' = IF ~all_passed
                                 THEN Append(violations, GnssViolation(FailedChecks(checks)))
                                 ELSE violations
                /\ ret' = [call |-> "monitor_gnss_operation", result |-> all_passed]
    /\ UNCHANGED <<compliance_level, rules, standards, operations_log>>
    /\ UNCHANGED sync_vars
    /\ UNCHANGED <<proc_vars, late>>

-----------------------------------------------------------------------------
(* ComplianceMonitor.generate_compliance_report.  report_id and the        *)
(* timestamps are left out; writable is whether the report file can be     *)
(* opened and written.                                                     *)

\* violation.get('violations', []), the rule ids of its entries
RuleIdsOf(violation) ==
    IF Has(violation, "violations")
    THEN [i \in DOMAIN violation.violations |-> violation.violations[i].rule_id]
    ELSE << >>

\* the rule ids the two loops of _generate_recommendations visit, in order
RECURSIVE VisitedRuleIds(_, _)
VisitedRuleIds(log, i) ==
    IF i > Len(log) THEN << >>
    ELSE RuleIdsOf(log[i]) \o VisitedRuleIds(log, i + 1)

\* violation_counts[rule_id]
ViolationCount(ids, rule_id) ==
    Cardinality({ i \in DOMAIN ids : ids[i] = rule_id })

\* the keys of violation_counts in insertion order
ViolationCountKeys(ids) ==
    LET keys == { ids[i] : i \in DOMAIN ids }
        first(rule_id) == CHOOSE i \in DOMAIN ids :
                            /\ ids[i] = rule_id
                            /\ \A j \in 1..(i - 1) : ids[j] # rule_id
    IN  [k \in 1..Cardinality(keys) |->
            CHOOSE rule_id \in keys :
                Cardinality({ other \in keys : first(other) < first(rule_id) }) = k - 1]

GenerateRecommendations ==
    LET ids == VisitedRuleIds(violations, 1)
        frequent == SelectSeq(ViolationCountKeys(ids),
                              LAMBDA rule_id : ViolationCount(ids, rule_id) > RETRAIN_COUNT)
        retrain == [k \in DOMAIN frequent |->
                        [rule_id |-> frequent[k],
                         note |-> "High frequency of violations. Consider retraining.",
                         count |-> ViolationCount(ids, frequent[k])]]
        recommendations ==
            IF Len(violations) > REVIEW_COUNT
            THEN Append(retrain,
                    [note |-> "High violation rate detected. Review operational procedures."])
            ELSE retrain
    IN  IF recommendations = << >>
        THEN << [note |-> "All operations within compliance limits. Continue monitoring."] >>
        ELSE recommendations

\* variant: the oldest entries are reported, self.operations_log[:100]
ReportOperationsOldest(log) ==
    IF Len(log) <= REPORT_OPERATIONS THEN log ELSE SubSeq(log, 1, REPORT_OPERATIONS)

\* self.operations_log[-100:]
ReportOperations(log) == LastN(log, REPORT_OPERATIONS)

\* self.violations[-50:]
ReportViolations(log) == LastN(log, REPORT_VIOLATIONS)

ComplianceReport ==
    [compliance_level |-> compliance_level,
     violations |-> ReportViolations(violations),
     recommendations |-> GenerateRecommendations,
     summary |->
        [total_operations |-> Len(operations_log),
         compliant_operations |->
            Cardinality({ i \in DOMAIN operations_log : operations_log[i].compliant }),
         non_compliant_operations |->
            Cardinality({ i \in DOMAIN operations_log : ~operations_log[i].compliant }),
         total_violations |-> Len(violations)],
     regulatory_framework |->
        [rules_loaded |-> Len(rules), standards_loaded |-> standards.standards],
     operations_analysis |-> ReportOperations(operations_log)]

GenerateComplianceReport(writable) ==
    /\ ret' = IF writable
              THEN [call |-> "generate_compliance_report", result |-> ComplianceReport]
              ELSE [call |-> "generate_compliance_report", raised |-> "OSError"]
    /\ UNCHANGED monitor_vars
    /\ UNCHANGED sync_vars
    /\ UNCHANGED <<proc_vars, late>>

-----------------------------------------------------------------------------
(* The process and its threads *)

\* None, in a field that otherwise holds a dataclass instance
Absent == [absent |-> TRUE]

\* the daemon threads init_time_server starts
Loops == {"ntp", "ptp", "monitor"}

\* the threads of the process
Threads == {"main", "evaluator", "reporter", "receiver", "ntp", "ptp", "monitor",
            "run_compliance"}

\* a thread between two calls
Idle == [at |-> "idle"]

\* class ModuleStatus
ModuleStatus == {"STOPPED", "STARTING", "RUNNING", "ERROR", "COMPLIANCE_FAILED"}

(* MNSFFramework.register_modules: five modules, all of them with           *)
(* compliance_required, 'compliance' registered as RUNNING and the others   *)
(* as STOPPED, last_check left at its default.                              *)
RegisterModules ==
    [name \in {"gnss", "sim_swap", "intercept", "physical_layer", "compliance"} |->
        [status |-> IF name = "compliance" THEN "RUNNING" ELSE "STOPPED",
         compliance_required |-> TRUE,
         last_check |-> None]]

(* The process once both objects are built and nothing is under way: the    *)
(* monitor's two load methods have succeeded, no shutdown signal has come,  *)
(* frequency_stability has not been set and the violation file is empty.    *)
ProcessInit ==
    /\ frequency_stability = Absent
    /\ violation_file = << >>
    /\ constructed = "yes"
    /\ loaded = {"regulations", "3gpp"}
    /\ framework = "running"
    /\ modules = RegisterModules
    /\ late = [loop \in Loops |-> 0]
    /\ pc = [thread \in Threads |-> "idle"]
    /\ local = [thread \in Threads |-> Idle]

\* thread moves to label next
Goto(thread, next) == pc' = [pc EXCEPT ![thread] = next]

\* late once loop has begun an iteration: counted from the shutdown signal on
LateAfter(loop) ==
    IF framework = "stopping" THEN [late EXCEPT ![loop] = @ + 1] ELSE late

-----------------------------------------------------------------------------
(* ComplianceMonitor.__init__, load_regulations and load_3gpp_standards.   *)
(*                                                                         *)
(* A file is what open() and the parser make of it: [opens |-> FALSE] when *)
(* open() raises, [opens |-> TRUE, parses |-> FALSE] when the parser       *)
(* raises, else the parsed document.  A YAML document is [dict |-> FALSE]  *)
(* when it is no mapping and [dict |-> TRUE, items |-> the mapping] when   *)
(* it is one.  A JSON value carries its type, [type |-> .., content |-> ..]*)

\* the keys RegulatoryRule(...) is built from
RULE_FIELDS ==
    <<"id", "standard", "description", "requirement", "max_violations", "penalty">>

\* rule_data['id'] ... rule_data['penalty']: a missing key raises KeyError
RuleDataComplete(rule_data) ==
    \A k \in DOMAIN RULE_FIELDS : Has(rule_data, RULE_FIELDS[k])

\* RegulatoryRule(id=rule_data['id'], ...)
RegulatoryRule(rule_data) ==
    [id |-> rule_data.id, standard |-> rule_data.standard,
     description |-> rule_data.description, penalty |-> rule_data.penalty,
     requirement |-> rule_data.requirement,
     max_violations |-> rule_data.max_violations]

\* for rule_data in config.get('regulatory_rules', []): self.rules.append(rule)
RECURSIVE LoadRulesFrom(_, _, _)
LoadRulesFrom(rule_list, i, appended) ==
    IF i > Len(rule_list) THEN [rules |-> appended, raised |-> FALSE]
    ELSE IF ~RuleDataComplete(rule_list[i]) THEN [rules |-> appended, raised |-> TRUE]
    ELSE LoadRulesFrom(rule_list, i + 1, Append(appended, RegulatoryRule(rule_list[i])))

(* load_regulations: the level and the rules it leaves in the monitor, and *)
(* whether it raised.  Whatever is raised inside is logged and raised      *)
(* again.                                                                  *)
LoadRegulations(file) ==
    LET failed == [compliance_level |-> compliance_level, rules |-> rules,
                   raised |-> TRUE]
    IN  IF ~file.opens THEN failed
        ELSE IF ~file.parses THEN failed
        ELSE IF ~file.document.dict THEN failed
        ELSE LET items == file.document.items
                 level == IF Has(items, "compliance_level")
                          THEN items.compliance_level ELSE "lab"
                 rule_list == IF Has(items, "regulatory_rules")
                              THEN items.regulatory_rules ELSE << >>
                 appended == LoadRulesFrom(rule_list, 1, rules)
             IN  IF level \notin ComplianceLevel THEN failed
                 ELSE [compliance_level |-> level, rules |-> appended.rules,
                       raised |-> appended.raised]

\* jsonschema.validate(instance=self.standards, schema=schema)
SchemaValid(document) ==
    /\ document.type = "object"
    /\ Has(document.content, "version")
    /\ Has(document.content, "standards")
    /\ document.content.version.type = "string"
    /\ document.content.standards.type = "array"
    /\ Has(document.content, "requirements") =>
            document.content.requirements.type = "object"

\* the document as json.load hands it over, without the types
Plain(document) ==
    IF document.type = "object"
    THEN [key \in DOMAIN document.content |-> document.content[key].content]
    ELSE document.content

\* variant: the except clause logs the failure and does not raise it again
Load3gppStandardsLenient(file) ==
    IF ~file.opens \/ ~file.parses
    THEN [standards |-> standards, raised |-> FALSE, valid |-> FALSE]
    ELSE [standards |-> Plain(file.document), raised |-> FALSE,
          valid |-> SchemaValid(file.document)]

(* load_3gpp_standards: what it leaves in self.standards, whether it       *)
(* raised, and whether it reached the end of the try block.                *)
Load3gppStandards(file) ==
    IF ~file.opens \/ ~file.parses
    THEN [standards |-> standards, raised |-> TRUE, valid |-> FALSE]
    ELSE [standards |-> Plain(file.document),
          raised |-> ~SchemaValid(file.document),
          valid |-> SchemaValid(file.document)]

(* ComplianceMonitor(): __init__ sets the fields, then runs the two load   *)
(* methods; the second is not reached when the first raises.               *)
ComplianceMonitorInit(regulations_file, standards_file) ==
    LET regulations == LoadRegulations(regulations_file)
        documents == Load3gppStandards(standards_file)
        raised == regulations.raised \/ documents.raised
    IN  /\ constructed = "no"
        /\ compliance_level' = regulations.compliance_level
        /\ rules' = regulations.rules
        /\ standards' = IF regulations.raised THEN standards ELSE documents.standards
        /\ loaded' = IF regulations.raised THEN {}
                     ELSE IF documents.valid THEN {"regulations", "3gpp"}
                     ELSE {"regulations"}
        /\ constructed' = IF raised THEN "raised" ELSE "yes"
        /\ ret' = [call |-> "__init__", raised |-> raised]
        /\ UNCHANGED <<operations_log, violations>>
        /\ UNCHANGED sync_vars
        /\ UNCHANGED <<frequency_stability, violation_file, framework, modules, late, pc, local>>

-----------------------------------------------------------------------------
(* check_operation, enforce_compliance and generate_compliance_report,     *)
(* statement by statement, for callers on several threads.  The monitor    *)
(* takes no lock.  A thread can be suspended between loading the attribute *)
(* self.operations_log or self.violations and the call of append or the    *)
(* slicing; append and slicing themselves run in the interpreter without   *)
(* another thread of the process running.                                  *)

\* variant: the list is copied, extended and stored back,
\* self.violations = self.violations + [check_result]
AppendedToCopy(log, loaded_list, entry) == Append(loaded_list, entry)

\* log.append(entry): loaded_list is the list as it was when the attribute
\* was loaded, the same object as log
Appended(log, loaded_list, entry) == Append(log, entry)

\* what the monitor's calls, statement by statement, leave alone
thread_frame ==
    <<compliance_level, rules, standards, status, time_data, position_data,
      ntp_sent, sync_msg, idle, frequency_stability, violation_file,
      constructed, loaded, framework, modules, late>>

\* the call returns on thread with result
Return(thread, result) ==
    /\ ret' = [operation |-> local[thread].check_result.operation,
               parameters |-> local[thread].check_result.parameters,
               call |-> local[thread].call,
               result |-> result]
    /\ local' = [local EXCEPT ![thread] = Idle]
    /\ Goto(thread, "idle")

\* lines 114-148: check_result is built, self.operations_log is loaded
EvaluateBegin(thread, call, operation, parameters) ==
    /\ pc[thread] = "idle"
    /\ local' = [local EXCEPT ![thread] =
                    [check_result |-> CheckResult(operation, parameters),
                     call |-> call,
                     loaded_list |-> operations_log]]
    /\ Goto(thread, "log_operation")
    /\ UNCHANGED <<operations_log, violations, ret>>
    /\ UNCHANGED thread_frame

(* line 148: self.operations_log.append(check_result).  A compliant verdict *)
(* is returned (lines 154, 303-308); for any other, self.violations is      *)
(* loaded.                                                                  *)
EvaluateLogOperation(thread) ==
    LET check_result == local[thread].check_result
    IN  /\ pc[thread] = "log_operation"
        /\ operations_log' =
                Appended(operations_log, local[thread].loaded_list, check_result)
        /\ IF check_result.compliant
           THEN Return(thread,
                       IF local[thread].call = "check_operation" THEN TRUE
                       ELSE Decide(TRUE, violations, check_result.operation))
           ELSE /\ local' = [local EXCEPT ![thread].loaded_list = violations]
                /\ Goto(thread, "log_violation")
                /\ UNCHANGED ret
        /\ UNCHANGED violations
        /\ UNCHANGED thread_frame

\* line 151: self.violations.append(check_result); check_operation returns
EvaluateLogViolation(thread) ==
    LET check_result == local[thread].check_result
    IN  /\ pc[thread] = "log_violation"
        /\ violations' = Appended(violations, local[thread].loaded_list, check_result)
        /\ IF local[thread].call = "check_operation"
           THEN Return(thread, FALSE)
           ELSE /\ Goto(thread, "window")
                /\ UNCHANGED <<ret, local>>
        /\ UNCHANGED operations_log
        /\ UNCHANGED thread_frame

\* lines 310-329: self.violations[-10:] is taken and filtered
EvaluateWindow(thread) ==
    /\ pc[thread] = "window"
    /\ Return(thread, Decide(FALSE, violations, local[thread].check_result.operation))
    /\ UNCHANGED <<operations_log, violations>>
    /\ UNCHANGED thread_frame

(* lines 249-262: the report up to 'regulatory_framework'.  The four counts *)
(* of the summary are read one after the other; they are taken together     *)
(* here.                                                                    *)
ReportBegin(thread) ==
    /\ pc[thread] = "idle"
    /\ local' = [local EXCEPT ![thread] =
                    [summary |-> ComplianceReport.summary,
                     regulatory_framework |-> ComplianceReport.regulatory_framework]]
    /\ Goto(thread, "operations_analysis")
    /\ UNCHANGED <<operations_log, violations, ret>>
    /\ UNCHANGED thread_frame

\* line 263: self.operations_log[-100:]
ReportReadOperations(thread) ==
    /\ pc[thread] = "operations_analysis"
    /\ local' = [local EXCEPT ![thread] =
                    [summary |-> local[thread].summary,
                     regulatory_framework |-> local[thread].regulatory_framework,
                     operations_analysis |-> ReportOperations(operations_log)]]
    /\ Goto(thread, "violations")
    /\ UNCHANGED <<operations_log, violations, ret>>
    /\ UNCHANGED thread_frame

\* line 264: self.violations[-50:]
ReportReadViolations(thread) ==
    /\ pc[thread] = "violations"
    /\ local' = [local EXCEPT ![thread] =
                    [violations |-> ReportViolations(violations),
                     summary |-> local[thread].summary,
                     regulatory_framework |-> local[thread].regulatory_framework,
                     operations_analysis |-> local[thread].operations_analysis]]
    /\ Goto(thread, "recommendations")
    /\ UNCHANGED <<operations_log, violations, ret>>
    /\ UNCHANGED thread_frame

\* lines 265-275: the recommendations are made, the file is written
ReportReturn(thread, writable) ==
    /\ pc[thread] = "recommendations"
    /\ ret' = IF writable
              THEN [call |-> "generate_compliance_report",
                    result |-> [compliance_level |-> compliance_level,
                                violations |-> local[thread].violations,
                                recommendations |-> GenerateRecommendations,
                                summary |-> local[thread].summary,
                                regulatory_framework |-> local[thread].regulatory_framework,
                                operations_analysis |-> local[thread].operations_analysis]]
              ELSE [call |-> "generate_compliance_report", raised |-> "OSError"]
    /\ local' = [local EXCEPT ![thread] = Idle]
    /\ Goto(thread, "idle")
    /\ UNCHANGED <<operations_log, violations>>
    /\ UNCHANGED thread_frame

-----------------------------------------------------------------------------
(* GNSSSyncManager: state and update_gnss_data.                            *)
(*                                                                         *)
(* time_quality is carried in thousandths (0.98 is 980) and uncertainty_ns *)
(* in whole nanoseconds.  A time in seconds is a record [hi, lo, frac]     *)
(* that stands for hi * 65536 + lo + frac / 2^21 with lo in 0..65535 and   *)
(* frac in 0..2^21-1: the whole seconds of an NTP timestamp need 32 bits   *)
(* unsigned, and a double between 2^31 and 2^32, where the NTP times of    *)
(* the years 1968 to 2036 lie, has steps of 2^-21 s.                       *)

\* class SyncStatus
SyncStatus == {"UNLOCKED", "ACQUIRING", "TRACKING", "LOCKED", "HOLDOVER", "FAULT"}

\* time_data.time_quality > 0.98, in thousandths
LOCK_QUALITY == 980
\* time_data.uncertainty_ns < 50
LOCK_UNCERTAINTY == 50
\* time_data.time_quality > 0.9, in thousandths
TRACK_QUALITY == 900

\* TimeData: utc_time is left out, no operation of the model reads it
TimeData(gps, quality, uncertainty) ==
    [gps_time |-> gps, leap_seconds |-> 18,
     time_quality |-> quality, uncertainty_ns |-> uncertainty]

\* sync_msg is unbound until the announcer first builds a message: << >>
SyncInit ==
    /\ status = "UNLOCKED"
    /\ time_data = Absent
    /\ position_data = Absent
    /\ ntp_sent = << >>
    /\ sync_msg = << >>
    /\ idle = 0

\* variant: the uncertainty bound is dropped from the LOCKED test
SyncStatusOfQualityOnly(sample) ==
    IF sample.time_quality > LOCK_QUALITY THEN "LOCKED"
    ELSE IF sample.time_quality > TRACK_QUALITY THEN "TRACKING"
    ELSE "ACQUIRING"

\* the if / elif / else of update_gnss_data
SyncStatusOf(sample) ==
    IF sample.time_quality > LOCK_QUALITY /\ sample.uncertainty_ns < LOCK_UNCERTAINTY
    THEN "LOCKED"
    ELSE IF sample.time_quality > TRACK_QUALITY THEN "TRACKING"
    ELSE "ACQUIRING"

\* variant: a sample that does not reach TRACKING leaves the status as it was
NextSyncStatusKeepsLock(sample) ==
    IF sample.time_quality > LOCK_QUALITY /\ sample.uncertainty_ns < LOCK_UNCERTAINTY
    THEN "LOCKED"
    ELSE IF sample.time_quality > TRACK_QUALITY THEN "TRACKING"
    ELSE IF status = "UNLOCKED" THEN "ACQUIRING"
    ELSE status

\* the status update_gnss_data assigns
NextSyncStatus(sample) == SyncStatusOf(sample)

(* broadcast_sync_update builds a dict of the new state and drops it *)
UpdateGnssData(sample, position) ==
    /\ time_data' = sample
    /\ position_data' = position
    /\ status' = NextSyncStatus(sample)
    /\ idle' = 0
    /\ ret' = [call |-> "update_gnss_data"]
    /\ UNCHANGED <<ntp_sent, sync_msg>>
    /\ UNCHANGED monitor_vars
    /\ UNCHANGED <<proc_vars, late>>

-----------------------------------------------------------------------------
(* GNSSSyncManager.time_to_ntp and generate_ntp_response *)

\* 2208988800 = NTP_EPOCH_HI * 65536 + NTP_EPOCH_LO, seconds from 1900 to 1970
NTP_EPOCH_HI == 33706
NTP_EPOCH_LO == 32384
\* 315964800 = GPS_EPOCH_HI * 65536 + GPS_EPOCH_LO
GPS_EPOCH_HI == 4821
GPS_EPOCH_LO == 15744
\* 0.001 s in steps of 2^-21 s: a double between 2^31 and 2^32 less 0.001
\* is rounded to the nearest step, 2097 steps below
RX_DELAY == 2097
\* len(data) >= 48
NTP_MIN_LEN == 48
\* bytearray(48)
NTP_RESPONSE_LEN == 48
\* 0x24
NTP_SERVER_V4 == 36
\* the steps of 2^-21 s in a second
STEPS_PER_SECOND == 2097152

\* bytearray(n)
Zeros(n) == [i \in 1..n |-> 0]

\* data[from:to]
Slice(data, from, to) ==
    LET end == IF to < Len(data) THEN to ELSE Len(data)
    IN  IF from >= end THEN << >> ELSE SubSeq(data, from + 1, end)

\* data[from:to] = new, for from <= to <= len(data)
SliceAssign(data, from, to, new) ==
    SubSeq(data, 1, from) \o new \o SubSeq(data, to + 1, Len(data))

\* t + (hi * 65536 + lo)
PlusSeconds(t, hi, lo) ==
    LET sum == t.lo + lo
    IN  [hi |-> t.hi + hi + (sum \div 65536), lo |-> sum % 65536, frac |-> t.frac]

\* t - steps * 2^-21, for steps below a second
MinusSteps(t, steps) ==
    IF t.frac >= steps THEN [t EXCEPT !.frac = @ - steps]
    ELSE IF t.lo > 0
    THEN [hi |-> t.hi, lo |-> t.lo - 1, frac |-> t.frac + STEPS_PER_SECOND - steps]
    ELSE [hi |-> t.hi - 1, lo |-> 65535, frac |-> t.frac + STEPS_PER_SECOND - steps]

(* struct.pack('!II', seconds, fraction) takes 0 <= seconds < 2^32 and      *)
(* 0 <= fraction < 2^32 and raises struct.error otherwise.  For a negative  *)
(* time int() leaves seconds or fraction negative; a time of 2^32 seconds   *)
(* or more does not fit.                                                    *)
Packs(t) == 0 <= t.hi /\ t.hi <= 65535

\* struct.pack('!II', int(timestamp), int((timestamp - seconds) * 2**32))
TimeToNtp(t) ==
    << t.hi \div 256, t.hi % 256, t.lo \div 256, t.lo % 256,
       t.frac \div 8192, (t.frac \div 32) % 256, (t.frac % 32) * 8, 0 >>

\* self.time_data.gps_time + 315964800
ReferenceTime(sample) == PlusSeconds(sample.gps_time, GPS_EPOCH_HI, GPS_EPOCH_LO)

(* generate_ntp_response: [raised |-> TRUE] when a time_to_ntp call raises, *)
(* else the response.  now is time.time().                                  *)
GenerateNtpResponse(request, now) ==
    LET current_time == PlusSeconds(now, NTP_EPOCH_HI, NTP_EPOCH_LO)
        rx_time      == MinusSteps(current_time, RX_DELAY)
        header       == [Zeros(NTP_RESPONSE_LEN) EXCEPT ![1] = NTP_SERVER_V4]
        with_tx      == SliceAssign(header, 40, 48, TimeToNtp(current_time))
        with_ref     == IF time_data # Absent
                        THEN SliceAssign(with_tx, 16, 24, TimeToNtp(ReferenceTime(time_data)))
                        ELSE with_tx
        with_origin  == SliceAssign(with_ref, 24, 32, Slice(request, 40, 48))
        with_rx      == SliceAssign(with_origin, 32, 40, TimeToNtp(rx_time))
    IN  IF ~Packs(current_time) THEN [raised |-> TRUE]
        ELSE IF time_data # Absent /\ ~Packs(ReferenceTime(time_data)) THEN [raised |-> TRUE]
        ELSE IF ~Packs(rx_time) THEN [raised |-> TRUE]
        ELSE [raised |-> FALSE, data |-> with_rx]

-----------------------------------------------------------------------------
(* GNSSSyncManager.run_ntp_server, one iteration of its loop.  recv is     *)
(* what recvfrom yields, a datagram or an OSError; send_ok is whether      *)
(* sendto succeeds.  An exception is logged and the loop sleeps a second.  *)

\* variant: a request one byte short is taken, len(data) >= 47
NtpAcceptsShort(data) == Len(data) >= NTP_MIN_LEN - 1

\* len(data) >= 48
NtpAccepts(data) == Len(data) >= NTP_MIN_LEN

RunNtpServer(recv, now, send_ok) ==
    LET response == GenerateNtpResponse(recv.data, now)
        error ==
            IF ~recv.ok THEN "OSError"
            ELSE IF ~NtpAccepts(recv.data) THEN None
            ELSE IF response.raised THEN "struct.error"
            ELSE IF ~send_ok THEN "OSError"
            ELSE None
        sends == recv.ok /\ NtpAccepts(recv.data) /\ error = None
    IN  /\ ntp_sent' = IF sends
                       THEN Append(ntp_sent, [data |-> response.data, addr |-> recv.addr])
                       ELSE ntp_sent
        /\ ret' = [call |-> "run_ntp_server", now |-> now, recv |-> recv,
                   send_ok |-> send_ok, error |-> error]
        /\ late' = LateAfter("ntp")
        /\ UNCHANGED <<status, time_data, position_data, sync_msg, idle>>
        /\ UNCHANGED monitor_vars
        /\ UNCHANGED proc_vars

-----------------------------------------------------------------------------
(* GNSSSyncManager.create_ptp_sync_message and run_ptp_server, one         *)
(* iteration of its loop.  The message is built and kept in the local      *)
(* sync_msg; nothing is sent.                                              *)

\* bytearray(44)
PTP_MESSAGE_LEN == 44
\* 0x10
PTP_SYNC == 16
\* 0x02
PTP_VERSION == 2

\* 1e9 = 0x3B9ACA00 as eight bytes, the least significant first
GIGA_BYTES == <<0, 202, 154, 59, 0, 0, 0, 0>>

\* the bytes of uncertainty_ns * 1e9 from byte i on, least significant
\* first, followed by the carry out of the eighth byte
RECURSIVE CorrectionBytesFrom(_, _, _)
CorrectionBytesFrom(uncertainty, i, carry) ==
    IF i > 8 THEN <<carry>>
    ELSE LET product == GIGA_BYTES[i] * uncertainty + carry
         IN  <<product % 256>> \o CorrectionBytesFrom(uncertainty, i + 1, product \div 256)

\* struct.pack('!Q', correction) takes 0 <= correction < 2^64
PacksCorrection(uncertainty) ==
    /\ uncertainty >= 0
    /\ CorrectionBytesFrom(uncertainty, 1, 0)[9] = 0

\* variant: the correction is packed least significant byte first, '<Q'
CorrectionFieldLittleEndian(uncertainty) ==
    LET bytes == CorrectionBytesFrom(uncertainty, 1, 0)
    IN  [i \in 1..8 |-> bytes[i]]

\* struct.pack('!Q', int(self.time_data.uncertainty_ns * 1e9))
CorrectionField(uncertainty) ==
    LET bytes == CorrectionBytesFrom(uncertainty, 1, 0)
    IN  [i \in 1..8 |-> bytes[9 - i]]

CreatePtpSyncMessage ==
    LET header == [Zeros(PTP_MESSAGE_LEN) EXCEPT ![1] = PTP_SYNC, ![2] = PTP_VERSION]
        correction == IF time_data # Absent THEN time_data.uncertainty_ns ELSE 0
    IN  SliceAssign(header, 8, 16, CorrectionField(correction))

\* variant: TRACKING is announced as well
AnnouncesWhenTracking == status \in {"LOCKED", "TRACKING"} /\ time_data # Absent

\* if self.status == SyncStatus.LOCKED and self.time_data
Announces == status = "LOCKED" /\ time_data # Absent

RunPtpServer ==
    /\ IF Announces
       THEN IF PacksCorrection(time_data.uncertainty_ns)
            THEN /\ sync_msg' = CreatePtpSyncMessage
                 /\ ret' = [call |-> "run_ptp_server", error |-> None, built |-> TRUE]
            ELSE /\ sync_msg' = sync_msg
                 /\ ret' = [call |-> "run_ptp_server", error |-> "struct.error",
                            built |-> FALSE]
       ELSE /\ sync_msg' = sync_msg
            /\ ret' = [call |-> "run_ptp_server", error |-> None, built |-> FALSE]
    /\ idle' = idle + 1
    /\ late' = LateAfter("ptp")
    /\ UNCHANGED <<status, time_data, position_data, ntp_sent>>
    /\ UNCHANGED monitor_vars
    /\ UNCHANGED proc_vars

-----------------------------------------------------------------------------
(* GNSSSyncManager.check_compliance, run_compliance_monitor and            *)
(* get_sync_info.  uncertainty_ns is in ns, time_quality in thousandths,   *)
(* frequency_stability in 1e-9, as [ppb |-> x]; an instance that has no    *)
(* attribute frequency_stability holds Absent.  A violation is its message without   *)
(* the figure it quotes.  The file is                                      *)
(* /var/log/mnsf/compliance_violations.json, a sequence of the records     *)
(* written to it, timestamps left out.                                     *)

\* line 232: 100 ns
UNCERTAINTY_LIMIT == 100

\* line 235: 0.95
QUALITY_LIMIT == 950

\* line 241: 0.1e-6
STABILITY_LIMIT == 100

Magnitude(x) == IF x < 0 THEN 0 - x ELSE x

\* variant: the limits themselves are violations
TimingViolationsInclusive(sample) ==
    IF sample = Absent THEN << >>
    ELSE (IF sample.uncertainty_ns >= UNCERTAINTY_LIMIT
          THEN <<"Timing uncertainty too high">> ELSE << >>)
         \o (IF sample.time_quality <= QUALITY_LIMIT
             THEN <<"Time quality below threshold">> ELSE << >>)

\* lines 231-236
TimingViolations(sample) ==
    IF sample = Absent THEN << >>
    ELSE (IF sample.uncertainty_ns > UNCERTAINTY_LIMIT
          THEN <<"Timing uncertainty too high">> ELSE << >>)
         \o (IF sample.time_quality < QUALITY_LIMIT
             THEN <<"Time quality below threshold">> ELSE << >>)

\* lines 240-242
FrequencyViolations(stability) ==
    IF stability # Absent /\ Magnitude(stability.ppb) > STABILITY_LIMIT
    THEN <<"Frequency stability out of spec">> ELSE << >>

\* the list violations at line 245
ComplianceViolations == TimingViolations(time_data) \o FrequencyViolations(frequency_stability)

\* lines 249-254
ViolationRecord(found) ==
    [violations |-> found, status |-> "non_compliant",
     action_taken |-> "continue_monitoring"]

\* variant: a sample that violates a limit puts the manager in FAULT
CheckComplianceDemotes(writable) ==
    /\ violation_file' =
           IF ComplianceViolations # << >> /\ writable
           THEN Append(violation_file, ViolationRecord(ComplianceViolations))
           ELSE violation_file
    /\ ret' = IF ComplianceViolations # << >> /\ ~writable
              THEN [call |-> "check_compliance", raised |-> "OSError",
                    logged |-> ComplianceViolations]
              ELSE [call |-> "check_compliance", result |-> ComplianceViolations = << >>,
                    logged |-> ComplianceViolations]
    /\ status' = IF ComplianceViolations # << >> THEN "FAULT" ELSE status
    /\ UNCHANGED <<time_data, position_data, ntp_sent, sync_msg, idle>>
    /\ UNCHANGED monitor_vars
    /\ UNCHANGED <<frequency_stability, constructed, loaded, framework, modules, pc, local>>

(* check_compliance.  writable is whether the file can be opened for       *)
(* appending; if it cannot, open() raises after the warning has been       *)
(* logged.                                                                 *)
CheckCompliance(writable) ==
    /\ violation_file' =
           IF ComplianceViolations # << >> /\ writable
           THEN Append(violation_file, ViolationRecord(ComplianceViolations))
           ELSE violation_file
    /\ ret' = IF ComplianceViolations # << >> /\ ~writable
              THEN [call |-> "check_compliance", raised |-> "OSError",
                    logged |-> ComplianceViolations]
              ELSE [call |-> "check_compliance", result |-> ComplianceViolations = << >>,
                    logged |-> ComplianceViolations]
    /\ UNCHANGED <<status, time_data, position_data, ntp_sent, sync_msg, idle>>
    /\ UNCHANGED monitor_vars
    /\ UNCHANGED <<frequency_stability, constructed, loaded, framework, modules, pc, local>>

\* an iteration of run_compliance_monitor
RunComplianceMonitor(writable) ==
    /\ CheckCompliance(writable)
    /\ late' = LateAfter("monitor")

\* the dict of get_sync_info, without the constellation, the verified flag
\* and the clock reading
SyncInfo ==
    [status |-> status,
     time_data |-> IF time_data = Absent THEN Absent
                   ELSE [gps |-> time_data.gps_time,
                         quality |-> time_data.time_quality,
                         leap_seconds |-> time_data.leap_seconds,
                         uncertainty_ns |-> time_data.uncertainty_ns],
     position_data |-> IF position_data = Absent THEN Absent
                       ELSE [latitude |-> position_data.latitude,
                             longitude |-> position_data.longitude,
                             altitude |-> position_data.altitude,
                             pdop |-> position_data.pdop,
                             hdop |-> position_data.hdop]]

GetSyncInfo ==
    /\ ret' = [call |-> "get_sync_info", result |-> SyncInfo]
    /\ UNCHANGED sync_vars
    /\ UNCHANGED monitor_vars
    /\ UNCHANGED <<proc_vars, late>>

(* signal_handler: sys.exit(0) raises SystemExit in the main thread, which  *)
(* unwinds main() to its finally clause.  The threads of init_time_server   *)
(* are not told.                                                            *)
SignalHandler ==
    /\ framework = "running"
    /\ framework' = "stopping"
    /\ ret' = [call |-> "signal_handler"]
    /\ UNCHANGED sync_vars
    /\ UNCHANGED monitor_vars
    /\ UNCHANGED <<frequency_stability, violation_file, constructed, loaded, modules,
                   late, pc, local>>

(* MNSFFramework.shutdown in the finally clause of main(), and the end of   *)
(* the process, which ends its daemon threads wherever they are.            *)
Shutdown(writable) ==
    /\ framework = "stopping"
    /\ framework' = "exited"
    /\ ret' = IF writable
              THEN [call |-> "shutdown", result |-> ComplianceReport]
              ELSE [call |-> "shutdown", raised |-> "OSError"]
    /\ modules' = [name \in DOMAIN modules |-> [modules[name] EXCEPT !.status = "STOPPED"]]
    /\ UNCHANGED sync_vars
    /\ UNCHANGED monitor_vars
    /\ UNCHANGED <<frequency_stability, violation_file, constructed, loaded, late,
                   pc, local>>

-----------------------------------------------------------------------------
(* MNSFFramework.start_module and stop_module.  They are coroutines of the  *)
(* one event loop of main() and contain no await that suspends, so neither  *)
(* runs while the other is under way; the thread start_compliance_module    *)
(* spawns runs beside them.                                                 *)

\* f"start_{module_name}"
StartOperation(module_name) ==
    CASE module_name = "gnss" -> "start_gnss"
      [] module_name = "sim_swap" -> "start_sim_swap"
      [] module_name = "intercept" -> "start_intercept"
      [] module_name = "physical_layer" -> "start_physical_layer"
      [] module_name = "compliance" -> "start_compliance"

\* what start_module and stop_module leave alone
framework_frame ==
    <<compliance_level, rules, standards, frequency_stability, violation_file,
      constructed, loaded, framework, late>>

\* the call is under way on the main thread
Starting(module_name) == [call |-> "start_module", module_name |-> module_name]

\* variant: a module whose start is refused is started all the same
StartModuleCheckUngated(module_name, kwargs) ==
    /\ pc["main"] = "idle"
    /\ IF module_name \notin DOMAIN modules
       THEN /\ ret' = [call |-> "start_module", result |-> FALSE,
                       module_name |-> module_name]
            /\ UNCHANGED <<operations_log, violations, modules, pc, local>>
       ELSE LET check_result == CheckResult(StartOperation(module_name), kwargs)
            IN  /\ operations_log' = LoggedOperations(check_result)
                /\ violations' = LoggedViolations(check_result)
                /\ ret' = Starting(module_name)
                /\ local' = [local EXCEPT !["main"] = Starting(module_name)]
                /\ Goto("main", "starting")
                /\ UNCHANGED modules
    /\ UNCHANGED sync_vars
    /\ UNCHANGED framework_frame

(* start_module, lines 97-111: an unknown name returns False; a module with *)
(* compliance_required is put to check_operation, and a non-compliant       *)
(* verdict sets COMPLIANCE_FAILED and returns False.                        *)
StartModuleCheck(module_name, kwargs) ==
    /\ pc["main"] = "idle"
    /\ IF module_name \notin DOMAIN modules
       THEN /\ ret' = [call |-> "start_module", result |-> FALSE,
                       module_name |-> module_name]
            /\ UNCHANGED <<operations_log, violations, modules, pc, local>>
       ELSE IF ~modules[module_name].compliance_required
       THEN /\ ret' = Starting(module_name)
            /\ local' = [local EXCEPT !["main"] = Starting(module_name)]
            /\ Goto("main", "starting")
            /\ UNCHANGED <<operations_log, violations, modules>>
       ELSE LET check_result == CheckResult(StartOperation(module_name), kwargs)
            IN  /\ operations_log' = LoggedOperations(check_result)
                /\ violations' = LoggedViolations(check_result)
                /\ IF ~check_result.compliant
                   THEN /\ modules' = [modules EXCEPT
                                          ![module_name].status = "COMPLIANCE_FAILED"]
                        /\ ret' = [call |-> "start_module", result |-> FALSE,
                                   module_name |-> module_name]
                        /\ UNCHANGED <<pc, local>>
                   ELSE /\ ret' = Starting(module_name)
                        /\ local' = [local EXCEPT !["main"] = Starting(module_name)]
                        /\ Goto("main", "starting")
                        /\ UNCHANGED modules
    /\ UNCHANGED sync_vars
    /\ UNCHANGED framework_frame

\* start_module, lines 114-115: STARTING, last_check = datetime.now()
StartModuleStarting ==
    /\ pc["main"] = "starting"
    /\ modules' = [modules EXCEPT
                      ![local["main"].module_name].status = "STARTING",
                      ![local["main"].module_name].last_check = "now"]
    /\ ret' = Starting(local["main"].module_name)
    /\ Goto("main", "run")
    /\ UNCHANGED <<operations_log, violations, local>>
    /\ UNCHANGED sync_vars
    /\ UNCHANGED framework_frame

(* start_module, lines 117-132.  start_gnss_module builds a new             *)
(* GNSSSyncManager and start_compliance_module spawns a thread that calls   *)
(* monitor_gnss_operation once; either can raise (the constructor reads     *)
(* files and binds sockets, Thread.start can fail), and then nothing of it  *)
(* is kept.  The other modules have nothing to start.                       *)
StartModuleRun(raised) ==
    LET module_name == local["main"].module_name
    IN  /\ pc["main"] = "run"
        /\ raised => module_name \in {"gnss", "compliance"}
        /\ IF module_name = "gnss" /\ ~raised
           THEN /\ status' = "UNLOCKED"
                /\ time_data' = Absent
                /\ position_data' = Absent
                /\ ntp_sent' = << >>
                /\ sync_msg' = << >>
                /\ idle' = 0
           ELSE UNCHANGED sync_vars
        /\ local' = [local EXCEPT
                        !["main"] = Idle,
                        !["run_compliance"] =
                            IF module_name = "compliance" /\ ~raised
                            THEN [at |-> "spawned",
                                  pending |-> IF @ = Idle THEN 1 ELSE @.pending + 1]
                            ELSE @]
        /\ modules' = [modules EXCEPT
                          ![module_name].status = IF raised THEN "ERROR" ELSE "RUNNING"]
        /\ ret' = [call |-> "start_module", result |-> ~raised,
                   module_name |-> module_name]
        /\ Goto("main", "idle")
        /\ UNCHANGED <<operations_log, violations>>
        /\ UNCHANGED framework_frame

\* run_compliance, the thread of start_compliance_module:
\* self.compliance_monitor.monitor_gnss_operation(), its result dropped
RunCompliance(config) ==
    /\ local["run_compliance"] # Idle
    /\ violations' =
          IF config.readable /\ FailedChecks(GnssChecks(config)) # << >>
          THEN Append(violations, GnssViolation(FailedChecks(GnssChecks(config))))
          ELSE violations
    /\ local' = [local EXCEPT !["run_compliance"] =
                    IF @.pending = 1 THEN Idle
                    ELSE [at |-> "spawned", pending |-> @.pending - 1]]
    /\ ret' = [call |-> "run_compliance"]
    /\ UNCHANGED <<operations_log, modules, pc>>
    /\ UNCHANGED sync_vars
    /\ UNCHANGED framework_frame

\* stop_module: False for an unknown name, else STOPPED and True
StopModule(module_name) ==
    /\ pc["main"] = "idle"
    /\ IF module_name \notin DOMAIN modules
       THEN /\ ret' = [call |-> "stop_module", result |-> FALSE,
                       module_name |-> module_name]
            /\ UNCHANGED modules
       ELSE /\ modules' = [modules EXCEPT ![module_name].status = "STOPPED"]
            /\ ret' = [call |-> "stop_module", result |-> TRUE,
                       module_name |-> module_name]
    /\ UNCHANGED <<operations_log, violations, pc, local>>
    /\ UNCHANGED sync_vars
    /\ UNCHANGED framework_frame

-----------------------------------------------------------------------------
(* update_gnss_data and an iteration of run_ptp_server, statement by        *)
(* statement.  The receiver thread and the announcer thread share the       *)
(* manager and take no lock: a thread can be suspended between any two      *)
(* statements, and between the two operands of the test of line 192.        *)

\* line 263: self.time_data = time_data
UpdateStoreTimeData(sample, position) ==
    /\ pc["receiver"] = "idle"
    /\ time_data' = sample
    /\ local' = [local EXCEPT !["receiver"] =
                    [time_data |-> sample, position_data |-> position]]
    /\ Goto("receiver", "position")
    /\ UNCHANGED <<status, position_data, ntp_sent, sync_msg, idle, ret>>
    /\ UNCHANGED monitor_vars
    /\ UNCHANGED <<frequency_stability, violation_file, constructed, loaded,
                   framework, modules, late>>

\* line 264: self.position_data = position_data
UpdateStorePositionData ==
    /\ pc["receiver"] = "position"
    /\ position_data' = local["receiver"].position_data
    /\ Goto("receiver", "status")
    /\ UNCHANGED <<status, time_data, ntp_sent, sync_msg, idle, ret, local>>
    /\ UNCHANGED monitor_vars
    /\ UNCHANGED <<frequency_stability, violation_file, constructed, loaded,
                   framework, modules, late>>

\* lines 267-280: self.status is set from the argument, and the call returns
UpdateStoreStatus ==
    /\ pc["receiver"] = "status"
    /\ status' = NextSyncStatus(local["receiver"].time_data)
    /\ idle' = 0
    /\ ret' = [call |-> "update_gnss_data"]
    /\ local' = [local EXCEPT !["receiver"] = Idle]
    /\ Goto("receiver", "idle")
    /\ UNCHANGED <<time_data, position_data, ntp_sent, sync_msg>>
    /\ UNCHANGED monitor_vars
    /\ UNCHANGED <<frequency_stability, violation_file, constructed, loaded,
                   framework, modules, late>>

\* line 192, left operand: self.status == SyncStatus.LOCKED
PtpTestStatus ==
    /\ pc["ptp"] = "idle"
    /\ IF status = "LOCKED"
       THEN /\ Goto("ptp", "sample")
            /\ UNCHANGED <<idle, ret, late>>
       ELSE /\ ret' = [call |-> "run_ptp_server", error |-> None, built |-> FALSE]
            /\ idle' = idle + 1
            /\ late' = LateAfter("ptp")
            /\ UNCHANGED pc
    /\ UNCHANGED <<status, time_data, position_data, ntp_sent, sync_msg, local>>
    /\ UNCHANGED monitor_vars
    /\ UNCHANGED <<frequency_stability, violation_file, constructed, loaded, framework, modules>>

\* line 192, right operand: self.time_data
PtpTestTimeData ==
    /\ pc["ptp"] = "sample"
    /\ IF time_data # Absent
       THEN /\ Goto("ptp", "create")
            /\ UNCHANGED <<idle, ret, late>>
       ELSE /\ ret' = [call |-> "run_ptp_server", error |-> None, built |-> FALSE]
            /\ idle' = idle + 1
            /\ late' = LateAfter("ptp")
            /\ Goto("ptp", "idle")
    /\ UNCHANGED <<status, time_data, position_data, ntp_sent, sync_msg, local>>
    /\ UNCHANGED monitor_vars
    /\ UNCHANGED <<frequency_stability, violation_file, constructed, loaded, framework, modules>>

(* line 194: create_ptp_sync_message reads self.time_data anew (line 212). *)
(* A sample, once set, is never taken away, so the two reads of line 212   *)
(* both find one; the second is the one the message is built from.         *)
PtpCreateMessage ==
    /\ pc["ptp"] = "create"
    /\ IF PacksCorrection(time_data.uncertainty_ns)
       THEN /\ sync_msg' = CreatePtpSyncMessage
            /\ ret' = [call |-> "run_ptp_server", error |-> None, built |-> TRUE]
       ELSE /\ sync_msg' = sync_msg
            /\ ret' = [call |-> "run_ptp_server", error |-> "struct.error",
                       built |-> FALSE]
    /\ idle' = idle + 1
    /\ late' = LateAfter("ptp")
    /\ Goto("ptp", "idle")
    /\ UNCHANGED <<status, time_data, position_data, ntp_sent, local>>
    /\ UNCHANGED monitor_vars
    /\ UNCHANGED <<frequency_stability, violation_file, constructed, loaded, framework, modules>>

-----------------------------------------------------------------------------
(* Inputs: the configuration files read at construction, and the requests  *)

\* bounds of the model
MaxRules == 2
MaxCalls == 4
MaxWindowCalls == 12
MaxWindowOther == 1
MaxReportCalls == 102
MaxIdle == 3
MaxSent == 2
MaxLoadCalls == 2

\* regulatory_rules entries of global_regulations.yaml
RuleCatalog ==
    << [id |-> "FCC_PART_15", standard |-> "FCC", description |-> <<"Emission limits">>,
        requirement |-> "mandatory", max_violations |-> 3, penalty |-> "warning"],
       [id |-> "ETSI_EN_300_328", standard |-> "ETSI", description |-> <<"ISM band use">>,
        requirement |-> "mandatory", max_violations |-> 1, penalty |-> "shutdown"],
       [id |-> "ITU_RR_5", standard |-> "ITU", description |-> <<"Frequency allocation">>,
        requirement |-> "advisory", max_violations |-> 5, penalty |-> "report"],
       [id |-> "LAB_SAFETY", standard |-> "LOCAL", description |-> <<"Lab power limit">>,
        requirement |-> "mandatory", max_violations |-> 0, penalty |-> "block"] >>

\* the rule lists a configuration may hold: none, or some rules in some order
RuleLists ==
    { SubSeq(RuleCatalog, 1, n) : n \in 0..MaxRules }
        \cup { <<RuleCatalog[2], RuleCatalog[1]>> }

\* 3gpp_standards.json documents: 'requirements' is optional in the schema
NoRequirements == [version |-> "17.1.0", standards |-> <<"TS 36.133">>]

EmptyRequirements ==
    [version |-> "17.1.0", standards |-> <<"TS 36.133">>, requirements |-> EmptyDict]

PowerRequirements ==
    [version |-> "17.1.0", standards |-> <<"TS 36.133", "TS 25.133">>,
     requirements |->
        [transmit_signal |->
            << [param |-> "tx_power",  spec |-> [min |-> -30, max |-> 10]],
               [param |-> "bandwidth", spec |-> [allowed |-> {5000000, 10000000}]] >>]]

BandRequirements ==
    [version |-> "17.1.0", standards |-> <<"TS 36.133">>,
     requirements |->
        [transmit_signal |->
            << [param |-> "frequency", spec |-> [min |-> 1000001]],
               [param |-> "bandwidth", spec |-> [max |-> 10000000, allowed |-> {10000000, 20000000}]] >>,
         gnss_receive |->
            << [param |-> "tx_power", spec |-> [max |-> -31]] >>]]

StandardsDocs == {NoRequirements, EmptyRequirements, PowerRequirements, BandRequirements}

Operations == {"transmit_signal", "gnss_receive", "signal_analyze"}

ParamNames == {"frequency", "tx_power", "bandwidth"}

\* kHz: the band edges, their neighbours, and the frequencies of the tests
FreqSamples ==
    {-1, 0, 940000, 1000000, 1000001, 1565419, 1565420, 1575420, 1585420, 1585421,
     2399999, 2400000, 2483500, 2483501}

\* dBm
PowerSamples == {-31, -30, -29, 10, 11, 20}

\* Hz
BandwidthSamples == {10000000, 20000000}

\* every mapping from some of the parameter names to sample values
ParameterSets ==
    { [name \in names |-> [frequency |-> f, tx_power |-> p, bandwidth |-> b][name]] :
        names \in SUBSET ParamNames,
        f \in FreqSamples, p \in PowerSamples, b \in BandwidthSamples }

NoCall == [call |-> "none"]

-----------------------------------------------------------------------------
(* SpecEval: one request, of any shape, put to a freshly constructed       *)
(* monitor of any configuration.                                           *)

InitEval ==
    /\ compliance_level \in ComplianceLevel
    /\ rules \in RuleLists
    /\ standards \in StandardsDocs
    /\ operations_log = << >>
    /\ violations = << >>
    /\ SyncInit
    /\ ProcessInit
    /\ ret = NoCall

EvalCheck ==
    /\ ret = NoCall
    /\ \E operation \in Operations, parameters \in ParameterSets :
            CheckOperation(operation, parameters)

EvalEnforce ==
    /\ ret = NoCall
    /\ \E operation \in Operations, parameters \in ParameterSets :
            EnforceCompliance(operation, parameters)

NextEval == EvalCheck \/ EvalEnforce

SpecEval == InitEval /\ [][NextEval]_vars

-----------------------------------------------------------------------------
(* Spec: a monitor serving a few calls of every kind.                      *)

\* the entries monitor_gnss_operation has appended
GnssEntries == { i \in DOMAIN violations : Has(violations[i], "module") }

\* the calls that have left an entry in a log
LoggedCalls == Len(operations_log) + Cardinality(GnssEntries)

GnssMarkers ==
    {"LAB MODE ENABLED", "enable_throttle_control=true", "1575420000",
     "Compliance Standards:"}

GnssConfigs ==
    { [readable |-> TRUE,  text |-> GnssMarkers],
      [readable |-> TRUE,  text |-> GnssMarkers \ {"enable_throttle_control=true"}],
      [readable |-> FALSE, text |-> {}] }

CallOperations == {"transmit_signal", "gnss_receive"}

CallParameters == { EmptyDict, [tx_power |-> 20] }

Init ==
    /\ compliance_level \in ComplianceLevel
    /\ rules \in { << >>, <<RuleCatalog[1]>> }
    /\ standards = PowerRequirements
    /\ operations_log = << >>
    /\ violations = << >>
    /\ SyncInit
    /\ ProcessInit
    /\ ret = NoCall

Check ==
    /\ LoggedCalls < MaxCalls
    /\ \E operation \in CallOperations, parameters \in CallParameters :
            CheckOperation(operation, parameters)

Enforce ==
    /\ LoggedCalls < MaxCalls
    /\ \E operation \in CallOperations, parameters \in CallParameters :
            EnforceCompliance(operation, parameters)

MonitorGnss ==
    /\ LoggedCalls < MaxCalls
    /\ \E config \in GnssConfigs : MonitorGnssOperation(config)

Report == \E writable \in BOOLEAN : GenerateComplianceReport(writable)

Next == Check \/ Enforce \/ MonitorGnss \/ Report

Spec == Init /\ [][Next]_vars

-----------------------------------------------------------------------------
(* SpecWindow: a LAB monitor with one rule serving a long run of           *)
(* non-compliant requests, long enough for the window of the last          *)
(* RECENT_WINDOW violations to slide.                                      *)

WindowParameters == [tx_power |-> 20]

\* the requests in the audit trail that were judged compliant
CompliantEntries == { i \in DOMAIN operations_log : operations_log[i].compliant }

\* the logged calls that were not non-compliant requests
OtherCalls == Cardinality(GnssEntries) + Cardinality(CompliantEntries)

WindowGnssConfig == [readable |-> TRUE, text |-> GnssMarkers \ {"LAB MODE ENABLED"}]

InitWindow ==
    /\ compliance_level = "lab"
    /\ rules = <<RuleCatalog[1]>>
    /\ standards = NoRequirements
    /\ operations_log = << >>
    /\ violations = << >>
    /\ SyncInit
    /\ ProcessInit
    /\ ret = NoCall

WindowEnforce ==
    /\ LoggedCalls < MaxWindowCalls
    /\ \E operation \in CallOperations :
            EnforceCompliance(operation, WindowParameters)

WindowEnforceCompliant ==
    /\ LoggedCalls < MaxWindowCalls
    /\ OtherCalls < MaxWindowOther
    /\ EnforceCompliance("transmit_signal", EmptyDict)

WindowMonitorGnss ==
    /\ LoggedCalls < MaxWindowCalls
    /\ OtherCalls < MaxWindowOther
    /\ MonitorGnssOperation(WindowGnssConfig)

NextWindow == WindowEnforce \/ WindowEnforceCompliant \/ WindowMonitorGnss

SpecWindow == InitWindow /\ [][NextWindow]_vars

-----------------------------------------------------------------------------
(* SpecReport: a LAB monitor whose logs outgrow the windows of the report: *)
(* a run of non-compliant requests, then a run of compliant ones, and      *)
(* reports in between.                                                     *)

InitReport ==
    /\ compliance_level = "lab"
    /\ rules = <<RuleCatalog[1]>>
    /\ standards = PowerRequirements
    /\ operations_log = << >>
    /\ violations = << >>
    /\ SyncInit
    /\ ProcessInit
    /\ ret = NoCall

ReportCheckNonCompliant ==
    /\ Len(operations_log) < MaxReportCalls
    /\ operations_log = violations
    /\ CheckOperation("transmit_signal", WindowParameters)

ReportCheckCompliant ==
    /\ Len(operations_log) < MaxReportCalls
    /\ CheckOperation("transmit_signal", EmptyDict)

ReportGenerate == \E writable \in BOOLEAN : GenerateComplianceReport(writable)

NextReport == ReportCheckNonCompliant \/ ReportCheckCompliant \/ ReportGenerate

SpecReport == InitReport /\ [][NextReport]_vars

-----------------------------------------------------------------------------
(* Inputs of the GNSSSyncManager: the samples of the receiver, the clock   *)
(* and the datagrams of the NTP clients.                                   *)

\* time_quality in thousandths: the thresholds, their neighbours, and the
\* values of test_sync_status_transitions
QualitySamples == {700, 850, 900, 901, 920, 980, 981, 990}

\* uncertainty_ns: the threshold, its neighbours, the values of the test,
\* and a negative value, which TimeData does not exclude
UncertaintySamples == {-1, 25, 49, 50, 500, 1000, 2000}

\* gps_time 1477699200.5, in November 2026
GpsTime2026 == [hi |-> 22547, lo |-> 59008, frac |-> 1048576]

\* gps_time -315964800: gps_time + 315964800 is 0
GpsTimeNtpEpoch == [hi |-> -4822, lo |-> 49792, frac |-> 0]

\* gps_time -315964801, a second earlier
GpsTimeBeforeNtpEpoch == [hi |-> -4822, lo |-> 49791, frac |-> 0]

\* gps_time 3979002495.5: gps_time + 315964800 is half a second below 2^32
GpsTimeEraEnd == [hi |-> 60714, lo |-> 49791, frac |-> 1048576]

\* gps_time 3979002496: gps_time + 315964800 is 2^32
GpsTimeNextEra == [hi |-> 60714, lo |-> 49792, frac |-> 0]

GpsTimeSamples ==
    {GpsTime2026, GpsTimeNtpEpoch, GpsTimeBeforeNtpEpoch, GpsTimeEraEnd, GpsTimeNextEra}

\* PositionData, degrees in 1e-4, metres, dilution of precision in tenths
PositionSamples ==
    { [latitude |-> 377749, longitude |-> -1224194, altitude |-> 10,
       pdop |-> 12, hdop |-> 10, vdop |-> 15],
      [latitude |-> 377750, longitude |-> -1224193, altitude |-> 11,
       pdop |-> 12, hdop |-> 10, vdop |-> 15] }

\* time.time() 1793664000.5, in November 2026
Clock2026 == [hi |-> 27369, lo |-> 9216, frac |-> 1048576]

\* time.time() 2085978496, 2036-02-07 06:28:16 UTC: NTP time 2^32
ClockNextEra == [hi |-> 31829, lo |-> 33152, frac |-> 0]

ClockSamples == {Clock2026, ClockNextEra}

\* the client's transmit timestamp, bytes 40..48 of its request
OriginSamples ==
    { <<238, 147, 162, 128, 64, 0, 0, 1>>, <<1, 2, 3, 4, 5, 6, 7, 8>> }

\* a client request of len bytes: 0x23 (version 4, client), zeros, and the
\* transmit timestamp
NtpRequest(len, origin) ==
    [i \in 1..len |->
        IF i = 1 THEN 35 ELSE IF i > 40 /\ i <= 48 THEN origin[i - 40] ELSE 0]

\* lengths of the datagrams: empty, a byte short, a plain request, a request
\* with an extension field
RequestLengths == {0, 47, 48, 68}

NtpClient == <<"10.0.0.7", 123>>

\* what recvfrom yields
Receptions ==
    { [data |-> NtpRequest(len, origin), ok |-> TRUE, addr |-> NtpClient] :
        len \in RequestLengths, origin \in OriginSamples }
        \cup { [ok |-> FALSE] }

\* a monitor that stands by while the sync manager is exercised
MonitorIdle ==
    /\ compliance_level = "lab"
    /\ rules = << >>
    /\ standards = NoRequirements
    /\ operations_log = << >>
    /\ violations = << >>

-----------------------------------------------------------------------------
(* SpecSync: the receiver feeds samples of every class while the announcer *)
(* loop runs.                                                              *)

InitSync ==
    /\ MonitorIdle
    /\ SyncInit
    /\ ProcessInit
    /\ ret = NoCall

SyncUpdate ==
    \E quality \in QualitySamples, uncertainty \in UncertaintySamples,
       position \in PositionSamples :
        UpdateGnssData(TimeData(GpsTime2026, quality, uncertainty), position)

SyncAnnounce ==
    /\ idle < MaxIdle
    /\ RunPtpServer

NextSync == SyncUpdate \/ SyncAnnounce

SpecSync == InitSync /\ [][NextSync]_vars

-----------------------------------------------------------------------------
(* SpecNtp: the NTP loop serves datagrams of every length, at a clock      *)
(* before and after the end of the NTP era, while the receiver feeds       *)
(* samples of every gps_time.                                              *)

InitNtp ==
    /\ MonitorIdle
    /\ SyncInit
    /\ ProcessInit
    /\ ret = NoCall

NtpUpdate ==
    \E gps \in GpsTimeSamples :
        UpdateGnssData(TimeData(gps, 990, 25),
                       CHOOSE position \in PositionSamples : position.altitude = 10)

NtpServe ==
    /\ Len(ntp_sent) < MaxSent
    /\ \E recv \in Receptions, now \in ClockSamples, send_ok \in BOOLEAN :
            RunNtpServer(recv, now, send_ok)

NextNtp == NtpUpdate \/ NtpServe

SpecNtp == InitNtp /\ [][NextNtp]_vars

-----------------------------------------------------------------------------
(* SpecRace: the receiver thread feeds samples while the announcer thread  *)
(* runs its loop, each statement by statement.                             *)

RaceQualities == {700, 920, 990}

RaceUncertainties == {25, 2000}

InitRace ==
    /\ MonitorIdle
    /\ SyncInit
    /\ ProcessInit
    /\ ret = NoCall

RaceUpdateTimeData ==
    \E quality \in RaceQualities, uncertainty \in RaceUncertainties :
        UpdateStoreTimeData(TimeData(GpsTime2026, quality, uncertainty),
                            CHOOSE position \in PositionSamples : position.altitude = 10)

RaceUpdatePositionData == UpdateStorePositionData

RaceUpdateStatus == UpdateStoreStatus

RacePtpTestStatus ==
    /\ idle < MaxIdle
    /\ PtpTestStatus

RacePtpTestTimeData == PtpTestTimeData

RacePtpCreateMessage == PtpCreateMessage

NextRace ==
    \/ RaceUpdateTimeData \/ RaceUpdatePositionData \/ RaceUpdateStatus
    \/ RacePtpTestStatus \/ RacePtpTestTimeData \/ RacePtpCreateMessage

SpecRace == InitRace /\ [][NextRace]_vars

-----------------------------------------------------------------------------
(* SpecLoad: a monitor is constructed from configuration files of every    *)
(* kind, sound and unsound, and, where there is one, serves a few calls.   *)

MissingFile == [opens |-> FALSE]

MalformedFile == [opens |-> TRUE, parses |-> FALSE]

\* global_regulations.yaml holding the mapping items
YamlFile(items) ==
    [opens |-> TRUE, parses |-> TRUE, document |-> [dict |-> TRUE, items |-> items]]

\* an empty global_regulations.yaml: yaml.safe_load gives None
EmptyYamlFile == [opens |-> TRUE, parses |-> TRUE, document |-> [dict |-> FALSE]]

\* a regulatory_rules entry without requirement, max_violations and penalty
IncompleteRule ==
    [id |-> "CE_RED", standard |-> "ETSI", description |-> <<"Radio equipment">>]

RegulationFiles ==
    { MissingFile, MalformedFile, EmptyYamlFile,
      YamlFile(EmptyDict),
      YamlFile([compliance_level |-> "staging"]),
      YamlFile([compliance_level |-> "test", regulatory_rules |-> <<RuleCatalog[1]>>]),
      YamlFile([compliance_level |-> "production",
                regulatory_rules |-> <<RuleCatalog[1], RuleCatalog[2]>>]),
      YamlFile([regulatory_rules |-> <<RuleCatalog[1], IncompleteRule, RuleCatalog[2]>>]) }

\* the JSON object whose members are those of plain, each of the type the
\* schema asks for
Typed(plain) ==
    [type |-> "object",
     content |-> [key \in DOMAIN plain |->
                    [type |-> IF key = "version" THEN "string"
                              ELSE IF key = "standards" THEN "array"
                              ELSE "object",
                     content |-> plain[key]]]]

\* 3gpp_standards.json holding document
JsonFile(document) == [opens |-> TRUE, parses |-> TRUE, document |-> document]

StandardsFiles ==
    { MissingFile, MalformedFile,
      JsonFile(Typed(PowerRequirements)),
      JsonFile(Typed(NoRequirements)),
      \* no 'version'
      JsonFile([type |-> "object",
                content |-> [standards |-> [type |-> "array", content |-> <<"TS 36.133">>]]]),
      \* 'standards' is a string
      JsonFile([type |-> "object",
                content |-> [standards |-> [type |-> "string", content |-> "TS 36.133"],
                             version |-> [type |-> "string", content |-> "17.1.0"]]]),
      \* 'requirements' is a list
      JsonFile([type |-> "object",
                content |-> [standards |-> [type |-> "array", content |-> <<"TS 36.133">>],
                             requirements |-> [type |-> "array", content |-> << >>],
                             version |-> [type |-> "string", content |-> "17.1.0"]]]),
      \* the document is a list
      JsonFile([type |-> "array", content |-> <<"TS 36.133">>]) }

\* the fields as lines 50-53 of __init__ set them, before the load methods
InitLoad ==
    /\ compliance_level = "lab"
    /\ rules = << >>
    /\ standards = Absent
    /\ operations_log = << >>
    /\ violations = << >>
    /\ SyncInit
    /\ frequency_stability = Absent
    /\ violation_file = << >>
    /\ constructed = "no"
    /\ loaded = {}
    /\ framework = "running"
    /\ modules = RegisterModules
    /\ late = [loop \in Loops |-> 0]
    /\ pc = [thread \in Threads |-> "idle"]
    /\ local = [thread \in Threads |-> Idle]
    /\ ret = NoCall

LoadConstruct ==
    \E regulations_file \in RegulationFiles, standards_file \in StandardsFiles :
        ComplianceMonitorInit(regulations_file, standards_file)

\* a call can be made on a monitor only once ComplianceMonitor() has returned it
LoadCheck ==
    /\ constructed = "yes"
    /\ LoggedCalls < MaxLoadCalls
    /\ \E operation \in CallOperations, parameters \in CallParameters :
            CheckOperation(operation, parameters)

LoadEnforce ==
    /\ constructed = "yes"
    /\ LoggedCalls < MaxLoadCalls
    /\ \E operation \in CallOperations, parameters \in CallParameters :
            EnforceCompliance(operation, parameters)

LoadMonitorGnss ==
    /\ constructed = "yes"
    /\ LoggedCalls < MaxLoadCalls
    /\ \E config \in GnssConfigs : MonitorGnssOperation(config)

LoadReport ==
    /\ constructed = "yes"
    /\ \E writable \in BOOLEAN : GenerateComplianceReport(writable)

NextLoad == LoadConstruct \/ LoadCheck \/ LoadEnforce \/ LoadMonitorGnss \/ LoadReport

SpecLoad == InitLoad /\ [][NextLoad]_vars

-----------------------------------------------------------------------------
(* SpecComply: the self-check runs while samples at and just beyond its    *)
(* limits arrive.  Nothing in the repository assigns frequency_stability:  *)
(* the attribute is there only if the code that embeds the manager has set *)
(* it, so it is chosen at the start.                                       *)

MaxRecords == 2

ComplyQualities == {949, 950}
ComplyUncertainties == {100, 101}
StabilitySamples == {-101, -100, 100, 101}

InitComply ==
    /\ MonitorIdle
    /\ SyncInit
    /\ frequency_stability \in {Absent} \cup {[ppb |-> x] : x \in StabilitySamples}
    /\ violation_file = << >>
    /\ constructed = "yes"
    /\ loaded = {"regulations", "3gpp"}
    /\ framework = "running"
    /\ modules = RegisterModules
    /\ late = [loop \in Loops |-> 0]
    /\ pc = [thread \in Threads |-> "idle"]
    /\ local = [thread \in Threads |-> Idle]
    /\ ret = NoCall

ComplyUpdate ==
    \E quality \in ComplyQualities, uncertainty \in ComplyUncertainties :
        UpdateGnssData(TimeData(GpsTime2026, quality, uncertainty),
                       CHOOSE position \in PositionSamples : position.altitude = 10)

ComplyCheck ==
    /\ Len(violation_file) < MaxRecords
    /\ \E writable \in BOOLEAN : RunComplianceMonitor(writable)

ComplyInfo == GetSyncInfo

NextComply == ComplyUpdate \/ ComplyCheck \/ ComplyInfo

SpecComply == InitComply /\ [][NextComply]_vars

-----------------------------------------------------------------------------
(* SpecService: a process that holds a GNSSSyncManager, whose three loops  *)
(* run while samples arrive, until a signal is delivered and the process   *)
(* shuts down.                                                             *)

MaxLate == 2

\* a sample that is LOCKED and passes the self-check, and one that does not
ServiceSamples == {TimeData(GpsTime2026, 990, 25), TimeData(GpsTime2026, 949, 101)}

ServiceReceptions ==
    { [data |-> NtpRequest(48, <<1, 2, 3, 4, 5, 6, 7, 8>>), ok |-> TRUE,
       addr |-> NtpClient],
      [ok |-> FALSE] }

InitService ==
    /\ MonitorIdle
    /\ SyncInit
    /\ ProcessInit
    /\ ret = NoCall

\* the process has not ended
Alive == framework # "exited"

ServiceUpdate ==
    /\ Alive
    /\ \E sample \in ServiceSamples :
           UpdateGnssData(sample,
                          CHOOSE position \in PositionSamples : position.altitude = 10)

ServiceCheck ==
    /\ Alive
    /\ Len(violation_file) < MaxRecords
    /\ late["monitor"] < MaxLate
    /\ \E writable \in BOOLEAN : RunComplianceMonitor(writable)

ServiceInfo ==
    /\ Alive
    /\ GetSyncInfo

ServiceNtp ==
    /\ Alive
    /\ Len(ntp_sent) < MaxSent
    /\ late["ntp"] < MaxLate
    /\ \E recv \in ServiceReceptions : RunNtpServer(recv, Clock2026, TRUE)

ServiceAnnounce ==
    /\ Alive
    /\ idle < MaxIdle
    /\ late["ptp"] < MaxLate
    /\ RunPtpServer

ServiceSignal == SignalHandler

ServiceShutdown == \E writable \in BOOLEAN : Shutdown(writable)

NextService ==
    \/ ServiceUpdate
    \/ ServiceCheck
    \/ ServiceInfo
    \/ ServiceNtp
    \/ ServiceAnnounce
    \/ ServiceSignal
    \/ ServiceShutdown

SpecService == InitService /\ [][NextService]_vars

-----------------------------------------------------------------------------
(* SpecThreads: two threads evaluate requests while a third makes a report, *)
(* on a monitor that has refused ThreadHistory requests before (a state     *)
(* SpecReport reaches), so that the next entries push the oldest ones out   *)
(* of the last 10, the last 50 and the last 100.                            *)

ThreadHistory == 99
MaxThreadCalls == 2

Evaluators == {"main", "evaluator"}
ThreadCalls == {"check_operation", "enforce_compliance"}
ThreadRequests ==
    {[operation |-> "gnss_receive", parameters |-> WindowParameters],
     [operation |-> "gnss_receive", parameters |-> EmptyDict]}

InitThreads ==
    /\ compliance_level = "lab"
    /\ rules = <<RuleCatalog[1]>>
    /\ standards = PowerRequirements
    /\ operations_log =
           [i \in 1..ThreadHistory |-> CheckResult("transmit_signal", WindowParameters)]
    /\ violations = operations_log
    /\ SyncInit
    /\ ProcessInit
    /\ ret = NoCall

\* the evaluations begun: the entries logged and the calls about to log one
Begun == Len(operations_log) + Cardinality({t \in Evaluators : pc[t] = "log_operation"})

ThreadsBegin ==
    \E thread \in Evaluators, call \in ThreadCalls, request \in ThreadRequests :
        /\ Begun < ThreadHistory + MaxThreadCalls
        /\ EvaluateBegin(thread, call, request.operation, request.parameters)

ThreadsLogOperation == \E thread \in Evaluators : EvaluateLogOperation(thread)

ThreadsLogViolation == \E thread \in Evaluators : EvaluateLogViolation(thread)

ThreadsWindow == \E thread \in Evaluators : EvaluateWindow(thread)

ThreadsReportBegin ==
    /\ ret.call # "generate_compliance_report"
    /\ ReportBegin("reporter")

ThreadsReportReadOperations == ReportReadOperations("reporter")

ThreadsReportReadViolations == ReportReadViolations("reporter")

ThreadsReportReturn == \E writable \in BOOLEAN : ReportReturn("reporter", writable)

NextThreads ==
    \/ ThreadsBegin
    \/ ThreadsLogOperation
    \/ ThreadsLogViolation
    \/ ThreadsWindow
    \/ ThreadsReportBegin
    \/ ThreadsReportReadOperations
    \/ ThreadsReportReadViolations
    \/ ThreadsReportReturn

SpecThreads == InitThreads /\ [][NextThreads]_vars

-----------------------------------------------------------------------------
(* Properties of enforce_compliance *)

Last(lst) == lst[Len(lst)]

\* the last call was enforce_compliance
Enforced == ret.call = "enforce_compliance"

\* the last call was enforce_compliance on a request judged non-compliant
EnforcedNonCompliant == Enforced /\ ~Last(operations_log).compliant

\* how many of log[from..to] carry the operation name
CountOperation(log, from, to, operation) ==
    Cardinality({ i \in DOMAIN log :
                    from <= i /\ i <= to /\ GetOperation(log[i]) = operation })

\* the entries for the request's operation among the 10 most recent violations
InWindow == CountOperation(violations, Len(violations) - 9, Len(violations), ret.operation)

(* C1: on a non-compliant request enforce_compliance returns                *)
(* {allowed: false, action: block} exactly when at least 3 of the 10 most   *)
(* recent violation-log entries carry the request's operation name, and     *)
(* {allowed: true, action: warn} otherwise; in every decision allowed is    *)
(* false if and only if action is block.                                    *)
C1_BlockIffThreeInWindow ==
    /\ EnforcedNonCompliant =>
          IF InWindow >= 3
          THEN ret.result.allowed = FALSE /\ ret.result.action = "block"
          ELSE ret.result.allowed = TRUE /\ ret.result.action = "warn"
    /\ Enforced => (ret.result.allowed = FALSE <=> ret.result.action = "block")

\* a warn for an operation with 3 or more violations logged, too few of them recent
C1_Witness ==
    /\ EnforcedNonCompliant
    /\ ret.result.action = "warn"
    /\ Len(violations) > 10
    /\ CountOperation(violations, 1, Len(violations), ret.operation) >= 3

\* every call so far was a non-compliant request for the operation of the last call
OnlyNonCompliantCallsForOperation ==
    /\ operations_log = violations
    /\ \A i \in DOMAIN violations : GetOperation(violations[i]) = ret.operation

(* C2: from an empty violation log, in a run of consecutive non-compliant   *)
(* enforce_compliance calls for one operation the first two calls yield     *)
(* warn and the fourth yields block.                                        *)
C2_FirstTwoWarnFourthBlocks ==
    (EnforcedNonCompliant /\ OnlyNonCompliantCallsForOperation) =>
        /\ Len(violations) \in {1, 2} => ret.result.action = "warn"
        /\ Len(violations) = 4 => ret.result.action = "block"

\* the fourth call of such a run, blocked
C2_Witness ==
    /\ EnforcedNonCompliant
    /\ OnlyNonCompliantCallsForOperation
    /\ Len(violations) = 4
    /\ ret.result.action = "block"

\* this step is an enforce_compliance call whose request is judged compliant
CompliantEnforceStep ==
    /\ ret'.call = "enforce_compliance"
    /\ Len(operations_log') = Len(operations_log) + 1
    /\ Last(operations_log').compliant

(* C3: a request check_operation judges compliant is answered               *)
(* {allowed: true, action: proceed} whatever the violation history, and the *)
(* call adds nothing to the violation log.                                  *)
C3_CompliantProceeds ==
    [][CompliantEnforceStep =>
          /\ ret'.result.allowed = TRUE
          /\ ret'.result.action = "proceed"
          /\ violations' = violations]_vars

\* proceed for an operation that has 3 or more of the last 10 violations
C3_Witness ==
    /\ Enforced
    /\ ret.result.action = "proceed"
    /\ InWindow >= 3

\* the entries for the request's operation among the 9 violations logged before it
BeforeCall ==
    CountOperation(violations, Len(violations) - 9, Len(violations) - 1, ret.operation)

(* C4: the threshold is a sliding window over the last 10 entries of the    *)
(* whole violation log: when fewer than 2 of the 9 entries logged before a  *)
(* non-compliant call carry its operation name, the call yields warn, also  *)
(* for an operation that was blocked before.                                *)
C4_BlockIsNotSticky ==
    (EnforcedNonCompliant /\ BeforeCall < 2) =>
        ret.result.allowed = TRUE /\ ret.result.action = "warn"

\* entry j was logged by a call that was answered block
WasBlockedAt(j) ==
    /\ GetOperation(violations[j]) = ret.operation
    /\ CountOperation(violations, j - 9, j, ret.operation) >= 3

\* warn for an operation blocked earlier, with entries of another operation
\* and of the GNSS monitor in the window
C4_Witness ==
    /\ EnforcedNonCompliant
    /\ ret.result.action = "warn"
    /\ \E j \in 1..(Len(violations) - 1) : WasBlockedAt(j)
    /\ \E i \in DOMAIN violations :
            i > Len(violations) - 10 /\ GetOperation(violations[i]) = None
    /\ \E i \in DOMAIN violations :
            i > Len(violations) - 10 /\ GetOperation(violations[i]) \notin {None, ret.operation}

-----------------------------------------------------------------------------
(* Properties of check_operation's verdict *)

\* the 3GPP_VIOLATION entries of a verdict
Count3gpp(verdict) ==
    Cardinality({ i \in DOMAIN verdict.violations :
                    verdict.violations[i].rule_id = "3GPP_VIOLATION" })

\* the value lies outside what the requirement entry gives
OutOfSpec(spec, value) ==
    \/ Has(spec, "min") /\ value < spec.min
    \/ Has(spec, "max") /\ value > spec.max
    \/ Has(spec, "allowed") /\ value \notin spec.allowed

\* the requirement entry of the operation for the parameter name is broken
\* by the request
BreaksRequirement(operation, parameters, name) ==
    /\ Has(Requirements, operation)
    /\ Has(parameters, name)
    /\ \E i \in DOMAIN Requirements[operation] :
            /\ Requirements[operation][i].param = name
            /\ OutOfSpec(Requirements[operation][i].spec, parameters[name])

\* where a rule id stands in the loaded rule list
RulePosition(rule_id) == CHOOSE p \in DOMAIN rules : rules[p].id = rule_id

\* the verdict's violations are k rule entries in rule-load order, then at
\* most one 3GPP_VIOLATION entry
RulesThen3gpp(found) ==
    \E k \in 0..Len(found) :
        /\ \A i \in 1..k :
              /\ found[i].rule_id # "3GPP_VIOLATION"
              /\ \E p \in DOMAIN rules : rules[p].id = found[i].rule_id
        /\ \A i, j \in 1..k :
              i < j => RulePosition(found[i].rule_id) < RulePosition(found[j].rule_id)
        /\ Len(found) - k <= 1
        /\ \A i \in (k + 1)..Len(found) : found[i].rule_id = "3GPP_VIOLATION"

(* C5: a verdict is compliant if and only if its violations list is empty;  *)
(* in the list the rule violations stand in rule-load order, before the     *)
(* single 3GPP_VIOLATION entry.                                             *)
C5_CompliantIffNoViolations ==
    \A n \in DOMAIN operations_log :
        LET verdict == operations_log[n]
        IN  /\ verdict.compliant <=> verdict.violations = << >>
            /\ verdict.compliant <=>
                  /\ \A p \in DOMAIN rules :
                        CheckRule(rules[p], verdict.operation, verdict.parameters)
                  /\ \A name \in DOMAIN verdict.parameters :
                        ~BreaksRequirement(verdict.operation, verdict.parameters, name)
            /\ RulesThen3gpp(verdict.violations)

\* a verdict with two rule violations and the 3GPP violation
C5_Witness ==
    /\ operations_log # << >>
    /\ ~Last(operations_log).compliant
    /\ Len(Last(operations_log).violations) = 3
    /\ Last(operations_log).violations[3].rule_id = "3GPP_VIOLATION"

\* the band sets the specification lists, in kHz
ClaimedBands(level) ==
    IF level = "lab"
    THEN { <<1565420, 1585420>>, <<2400000, 2483500>>, <<0, 1000000>> }
    ELSE { }

InClaimedBands(level, freq) ==
    \E band \in ClaimedBands(level) : band[1] <= freq /\ freq <= band[2]

\* no check but the frequency check applies to the request
OnlyFrequencyApplies(verdict) ==
    /\ ~Has(verdict.parameters, "tx_power")
    /\ ~Has(Requirements, verdict.operation)

(* C6 as stated: the frequency check passes if and only if the frequency    *)
(* lies in a band of the level's set, and at TEST and PRODUCTION every      *)
(* request that carries a frequency is non-compliant.                       *)
C6_AsStated ==
    \A n \in DOMAIN operations_log :
        LET verdict == operations_log[n]
        IN  Has(verdict.parameters, "frequency") =>
              /\ ~FrequencyCheckFails(verdict.parameters)
                    <=> InClaimedBands(compliance_level, verdict.parameters.frequency)
              /\ compliance_level \in {"test", "production"} => ~verdict.compliant

(* C6, amended: the frequency check passes if and only if the frequency     *)
(* lies in a band of the level's set; a request whose frequency lies in no  *)
(* band is non-compliant when at least one regulatory rule is loaded, which *)
(* at TEST and PRODUCTION is every request that carries a frequency; a      *)
(* request without a frequency is unaffected by the check.                  *)
C6_FrequencyBands ==
    \A n \in DOMAIN operations_log :
        LET verdict == operations_log[n]
        IN  IF Has(verdict.parameters, "frequency")
            THEN LET inBand == InClaimedBands(compliance_level,
                                              verdict.parameters.frequency)
                 IN  /\ ~FrequencyCheckFails(verdict.parameters) <=> inBand
                     /\ (rules # << >> /\ ~inBand) => ~verdict.compliant
                     /\ (rules # << >> /\ compliance_level \in {"test", "production"})
                            => ~verdict.compliant
                     /\ (OnlyFrequencyApplies(verdict) /\ inBand) => verdict.compliant
            ELSE /\ ~FrequencyCheckFails(verdict.parameters)
                 /\ OnlyFrequencyApplies(verdict) => verdict.compliant

\* at TEST, with a rule loaded, a GPS L1 request is refused
C6_Witness ==
    /\ operations_log # << >>
    /\ compliance_level = "test"
    /\ rules # << >>
    /\ Last(operations_log).parameters = [frequency |-> 1575420]
    /\ ~Last(operations_log).compliant

\* the ceilings the specification lists, in dBm
ClaimedCeiling(level) == IF level = "lab" THEN -30 ELSE 10

(* C7 as stated: a request whose tx_power is above the ceiling of the level *)
(* is non-compliant; a tx_power at or below the ceiling causes no           *)
(* violation.                                                               *)
C7_AsStated ==
    \A n \in DOMAIN operations_log :
        LET verdict == operations_log[n]
        IN  Has(verdict.parameters, "tx_power") =>
              IF verdict.parameters.tx_power > ClaimedCeiling(compliance_level)
              THEN ~verdict.compliant
              ELSE ~PowerCheckFails(verdict.parameters)

(* C7, amended: when at least one regulatory rule is loaded, a request      *)
(* whose tx_power is above the ceiling of the level is non-compliant; a     *)
(* tx_power at or below the ceiling causes no violation.                    *)
C7_PowerCeiling ==
    \A n \in DOMAIN operations_log :
        LET verdict == operations_log[n]
        IN  Has(verdict.parameters, "tx_power") =>
              IF verdict.parameters.tx_power > ClaimedCeiling(compliance_level)
              THEN rules # << >> => ~verdict.compliant
              ELSE /\ ~PowerCheckFails(verdict.parameters)
                   /\ (~Has(verdict.parameters, "frequency")
                         /\ ~Has(Requirements, verdict.operation)) => verdict.compliant

\* at PRODUCTION, with a rule loaded, 11 dBm alone is refused
C7_Witness ==
    /\ operations_log # << >>
    /\ compliance_level = "production"
    /\ rules # << >>
    /\ Last(operations_log).parameters = [tx_power |-> 11]
    /\ ~Last(operations_log).compliant

\* the two requests of the lab-mode test, frequencies in kHz
GnssReceiveRequest == [frequency |-> 1575420, tx_power |-> -30]

TransmitRequest == [frequency |-> 940000, tx_power |-> 20]

C9_One3gppViolation ==
    \A n \in DOMAIN operations_log :
        LET verdict == operations_log[n]
        IN  IF Has(Requirements, verdict.operation)
            THEN /\ Count3gpp(verdict) = 1 <=>
                        \E name \in DOMAIN verdict.parameters :
                            BreaksRequirement(verdict.operation, verdict.parameters, name)
                 /\ Count3gpp(verdict) <= 1
            ELSE Count3gpp(verdict) = 0

\* two parameters out of spec, one entry
C9_Witness ==
    /\ operations_log # << >>
    /\ LET verdict == Last(operations_log)
       IN  /\ Count3gpp(verdict) = 1
           /\ BreaksRequirement(verdict.operation, verdict.parameters, "tx_power")
           /\ BreaksRequirement(verdict.operation, verdict.parameters, "bandwidth")

\* what a request is judged: the flag and the violations list
Verdict(operation, parameters) ==
    LET check_result == CheckResult(operation, parameters)
    IN  <<check_result.compliant, check_result.violations>>

\* the request without the parameter
Without(parameters, name) ==
    [key \in DOMAIN parameters \ {name} |-> parameters[key]]

\* the request with one more parameter
With(parameters, name, value) ==
    [key \in DOMAIN parameters \cup {name} |->
        IF key = name THEN value ELSE parameters[key]]

\* a check exists for the parameter name
Covered(operation, name) ==
    \/ name \in {"frequency", "tx_power"}
    \/ /\ Has(Requirements, operation)
       /\ \E i \in DOMAIN Requirements[operation] :
                Requirements[operation][i].param = name

\* some check fails on the parameter
FailsOn(operation, parameters, name) ==
    \/ name = "frequency" /\ ~InClaimedBands(compliance_level, parameters[name])
    \/ name = "tx_power" /\ parameters[name] > ClaimedCeiling(compliance_level)
    \/ BreaksRequirement(operation, parameters, name)

\* values to add to a request
ValueSamples(name) ==
    CASE name = "frequency" -> FreqSamples
      [] name = "tx_power"  -> PowerSamples
      [] name = "bandwidth" -> BandwidthSamples
      [] OTHER              -> {0, 40}

(* C10: constraints apply only to parameters present in the request.        *)
(* Removing a parameter no check fails on, or adding a parameter no check   *)
(* covers, leaves the verdict as it is; a request that omits a parameter    *)
(* the requirement table constrains is not marked violated for it.          *)
C10_FailOpen ==
    \A n \in DOMAIN operations_log :
        LET operation  == operations_log[n].operation
            parameters == operations_log[n].parameters
            verdict    == <<operations_log[n].compliant, operations_log[n].violations>>
        IN  /\ \A name \in DOMAIN parameters :
                  ~FailsOn(operation, parameters, name) =>
                      Verdict(operation, Without(parameters, name)) = verdict
            /\ \A name \in (ParamNames \cup {"gain"}) \ DOMAIN parameters :
                  ~Covered(operation, name) =>
                      \A value \in ValueSamples(name) :
                          Verdict(operation, With(parameters, name, value)) = verdict
            /\ (\A name \in DOMAIN parameters :
                    ~BreaksRequirement(operation, parameters, name))
                  => Count3gpp(operations_log[n]) = 0

\* a compliant request for an operation of the table that omits a
\* constrained parameter and carries one that can be removed
C10_Witness ==
    /\ operations_log # << >>
    /\ LET verdict == Last(operations_log)
       IN  /\ verdict.compliant
           /\ Has(Requirements, verdict.operation)
           /\ verdict.parameters # EmptyDict
           /\ \E i \in DOMAIN Requirements[verdict.operation] :
                    ~Has(verdict.parameters, Requirements[verdict.operation][i].param)

-----------------------------------------------------------------------------
(* Properties of the two logs and of the report *)

\* this step is a check_operation call, made directly or by enforce_compliance
EvaluationStep ==
    /\ ret'.call \in {"check_operation", "enforce_compliance"}
    /\ <<operations_log, violations, ret>> # <<operations_log, violations, ret>>'

\* the compliant flag the call of this step hands back
ReturnedCompliant ==
    IF ret'.call = "check_operation" THEN ret'.result
    ELSE ret'.result.action = "proceed"

(* C11: every check_operation call appends exactly one entry to the audit   *)
(* trail, the verdict of the request; a non-compliant verdict is also       *)
(* appended, once, to the violation log and a compliant one is not.  A      *)
(* request whose operation_id is in the trail already is appended again.    *)
C11_OneAuditEntryPerCall ==
    [][EvaluationStep =>
          LET verdict == Last(operations_log')
          IN  /\ Len(operations_log') = Len(operations_log) + 1
              /\ SubSeq(operations_log', 1, Len(operations_log)) = operations_log
              /\ verdict.operation = ret'.operation
              /\ verdict.parameters = ret'.parameters
              /\ verdict.compliant = ReturnedCompliant
              /\ IF verdict.compliant
                 THEN violations' = violations
                 ELSE violations' = Append(violations, verdict)]_vars

\* one request logged three times, refused each time
C11_Witness ==
    /\ ret.call = "check_operation"
    /\ \E i, j, k \in DOMAIN operations_log :
            /\ i < j /\ j < k
            /\ operations_log[i].operation_id = operations_log[j].operation_id
            /\ operations_log[j].operation_id = operations_log[k].operation_id
    /\ Len(violations) >= 3
    /\ \E i \in DOMAIN operations_log : operations_log[i].compliant

(* C12 as stated: the audit trail never grows beyond a fixed capacity.  The *)
(* runs of the model make up to MaxReportCalls evaluations, so a capacity   *)
(* they could show is smaller than that; the largest such capacity stands   *)
(* for all of them.                                                         *)
C12_AsStated == Len(operations_log) <= MaxReportCalls - 1

\* log is the beginning of longer
IsPrefix(log, longer) ==
    /\ Len(log) <= Len(longer)
    /\ SubSeq(longer, 1, Len(log)) = log

(* C13: the violation log is append-only: whatever call is made, the log    *)
(* before the call is a prefix of the log after it.                         *)
C13_ViolationLogAppendOnly == [][IsPrefix(violations, violations')]_vars

\* a report made from a log that holds entries of the GNSS monitor, of
\* check_operation and of enforce_compliance
C13_Witness ==
    /\ ret.call = "generate_compliance_report"
    /\ Has(ret, "result")
    /\ Len(violations) >= 3
    /\ GnssEntries # {}
    /\ ret.result.summary.total_violations > ret.result.summary.non_compliant_operations

\* this step hands back a report
ReportStep ==
    /\ ret'.call = "generate_compliance_report"
    /\ Has(ret', "result")

\* part is the last n entries of log, where n is the smaller of limit and Len(log)
IsTail(part, log, limit) ==
    LET n == IF Len(log) < limit THEN Len(log) ELSE limit
    IN  /\ Len(part) = n
        /\ \A i \in 1..n : part[i] = log[Len(log) - n + i]

(* C14: in a report total_operations is the length of the audit trail,      *)
(* compliant_operations and non_compliant_operations add up to it,          *)
(* total_violations is the length of the violation log, operations_analysis *)
(* is the last min(100, total) audit entries and violations the last        *)
(* min(50, total) violation entries; making the report changes neither log. *)
C14_ReportCounts ==
    [][ReportStep =>
          LET report == ret'.result
          IN  /\ report.summary.total_operations = Len(operations_log)
              /\ report.summary.compliant_operations = Cardinality(CompliantEntries)
              /\ report.summary.compliant_operations
                    + report.summary.non_compliant_operations
                        = report.summary.total_operations
              /\ report.summary.total_violations = Len(violations)
              /\ IsTail(report.operations_analysis, operations_log, 100)
              /\ IsTail(report.violations, violations, 50)
              /\ Len(report.operations_analysis) <= 100
              /\ Len(report.violations) <= 50
              /\ operations_log' = operations_log
              /\ violations' = violations]_vars

\* a report that leaves out audit entries and violations, of a trail
\* holding verdicts of both kinds
C14_Witness ==
    /\ ret.call = "generate_compliance_report"
    /\ Has(ret, "result")
    /\ ret.result.summary.total_operations > 100
    /\ ret.result.summary.total_violations > 50
    /\ ret.result.summary.compliant_operations > 0
    /\ Len(ret.result.operations_analysis) = 100
    /\ Len(ret.result.violations) = 50

-----------------------------------------------------------------------------
(* Properties of the lock state *)

\* the classification as the specification gives it, quality in thousandths
Classify(quality, uncertainty) ==
    IF quality > 980 /\ uncertainty < 50 THEN "LOCKED"
    ELSE IF quality > 900 THEN "TRACKING"
    ELSE "ACQUIRING"

\* the last call was update_gnss_data
Updated == ret.call = "update_gnss_data"

\* the sample held is (quality, uncertainty_ns)
Holds(quality, uncertainty) ==
    /\ time_data # Absent
    /\ time_data.time_quality = quality
    /\ time_data.uncertainty_ns = uncertainty

(* C15: update_gnss_data sets LOCKED if quality > 0.98 and uncertainty_ns   *)
(* < 50, otherwise TRACKING if quality > 0.9, otherwise ACQUIRING, the      *)
(* comparisons strict: (0.99, 25) gives LOCKED, (0.92, 500) TRACKING,       *)
(* (0.85, 1000) and (0.70, 2000) ACQUIRING, 0.98 or 50 is not LOCKED and    *)
(* 0.9 is ACQUIRING.                                                        *)
C15_Classification ==
    Updated =>
        /\ status = Classify(time_data.time_quality, time_data.uncertainty_ns)
        /\ Holds(990, 25) => status = "LOCKED"
        /\ Holds(920, 500) => status = "TRACKING"
        /\ Holds(850, 1000) => status = "ACQUIRING"
        /\ Holds(700, 2000) => status = "ACQUIRING"
        /\ time_data.time_quality = 980 => status # "LOCKED"
        /\ time_data.uncertainty_ns = 50 => status # "LOCKED"
        /\ time_data.time_quality = 900 => status = "ACQUIRING"

\* a sample of the best quality at the uncertainty bound: TRACKING
C15_Witness ==
    /\ Updated
    /\ Holds(990, 50)
    /\ status = "TRACKING"

(* C16: in every state the status is the classification of the sample held, *)
(* whatever was held before: UNLOCKED as long as there is none, and one of  *)
(* ACQUIRING, TRACKING, LOCKED from the first update on.                    *)
C16_StatusOfLastSample ==
    IF time_data = Absent
    THEN status = "UNLOCKED" /\ ~Updated
    ELSE /\ status = Classify(time_data.time_quality, time_data.uncertainty_ns)
         /\ status \in {"ACQUIRING", "TRACKING", "LOCKED"}

\* ACQUIRING straight after a state in which the announcer had built a
\* message, that is, after LOCKED
C16_Witness ==
    /\ Updated
    /\ status = "ACQUIRING"
    /\ sync_msg # << >>

(* C17 as stated: when no update has arrived for the holdover window, a     *)
(* status of LOCKED or TRACKING has become HOLDOVER or FAULT.  Time is      *)
(* counted in iterations of the announcer loop; the window is any number of *)
(* them up to MaxIdle.                                                      *)
C17_AsStated ==
    (/\ idle >= MaxIdle
     /\ time_data # Absent
     /\ Classify(time_data.time_quality, time_data.uncertainty_ns) \in {"LOCKED", "TRACKING"})
        => status \in {"HOLDOVER", "FAULT"}

-----------------------------------------------------------------------------
(* Properties of the NTP loop *)

\* this step is an iteration of run_ntp_server that received a datagram
NtpStep ==
    /\ ret'.call = "run_ntp_server"
    /\ ret'.recv.ok
    /\ <<ntp_sent, ret>> # <<ntp_sent, ret>>'

\* the datagrams sent in this step
SentInStep == SubSeq(ntp_sent', Len(ntp_sent) + 1, Len(ntp_sent'))

(* C18 as stated: a request of 48 bytes or more is answered, whatever       *)
(* sample is held, with exactly one response of 48 bytes whose byte 0 is    *)
(* 0x24 and whose bytes 24..32 are the request's bytes 40..48.  Stated for  *)
(* the iterations in which sendto succeeds.                                 *)
C18_AsStated ==
    [][(NtpStep /\ Len(ret'.recv.data) >= 48 /\ ret'.send_ok) =>
          /\ SubSeq(ntp_sent', 1, Len(ntp_sent)) = ntp_sent
          /\ Len(SentInStep) = 1
          /\ Len(SentInStep[1].data) = 48
          /\ SentInStep[1].data[1] = 36
          /\ \A i \in 1..8 : SentInStep[1].data[24 + i] = ret'.recv.data[40 + i]]_vars

(* C19: a request shorter than 48 bytes is dropped: nothing is sent, no     *)
(* error is raised, and the sample, the position and the status stay as     *)
(* they are.                                                                *)
C19_ShortRequestDropped ==
    [][(NtpStep /\ Len(ret'.recv.data) < 48) =>
          /\ ntp_sent' = ntp_sent
          /\ ret'.error = None
          /\ <<status, time_data, position_data>>' = <<status, time_data, position_data>>]_vars

\* a request a byte short dropped by a loop that holds a sample and has
\* answered a request before
C19_Witness ==
    /\ ret.call = "run_ntp_server"
    /\ ret.recv.ok
    /\ Len(ret.recv.data) = 47
    /\ ret.error = None
    /\ time_data # Absent
    /\ Len(ntp_sent) = 1

(* C20 as stated: a request of 48 bytes or more is answered also when no    *)
(* sample is held, bytes 16..24 of the response then being zero; when a     *)
(* sample is held they encode its gps_time + 315964800.  Stated for the     *)
(* iterations in which sendto succeeds.                                     *)
C20_AsStated ==
    [][(NtpStep /\ Len(ret'.recv.data) >= 48 /\ ret'.send_ok) =>
          /\ Len(SentInStep) = 1
          /\ Slice(SentInStep[1].data, 16, 24) =
                IF time_data = Absent
                THEN <<0, 0, 0, 0, 0, 0, 0, 0>>
                ELSE TimeToNtp(PlusSeconds(time_data.gps_time, 4821, 15744))]_vars

-----------------------------------------------------------------------------
(* Properties of the PTP loop *)

\* this step is an iteration of run_ptp_server
PtpStep ==
    /\ ret'.call = "run_ptp_server"
    /\ idle' = idle + 1

-----------------------------------------------------------------------------
(* Properties of the monitor as a whole *)

\* entries i and j of the audit trail are verdicts on the same request
SameRequest(i, j) ==
    /\ operations_log[i].operation = operations_log[j].operation
    /\ operations_log[i].parameters = operations_log[j].parameters

(* C22: the verdict on a request depends on the rules, the requirement      *)
(* table, the level and the request only: whenever one monitor has judged   *)
(* the same request twice, with whatever evaluations before and between,    *)
(* the two verdicts have the same compliant flag and the same violations.   *)
C22_SameRequestSameVerdict ==
    \A i, j \in DOMAIN operations_log :
        SameRequest(i, j) =>
            /\ operations_log[i].compliant = operations_log[j].compliant
            /\ operations_log[i].violations = operations_log[j].violations

\* a request judged compliant before and after another request was refused
C22_Witness ==
    \E i, j \in DOMAIN operations_log :
        /\ i + 1 < j
        /\ SameRequest(i, j)
        /\ operations_log[i].compliant
        /\ ~operations_log[i + 1].compliant
        /\ Len(violations) >= 1

\* the last call was a request for a verdict
Served == ret.call \in {"check_operation", "enforce_compliance"}

(* C23: ComplianceMonitor() raises when load_regulations or                 *)
(* load_3gpp_standards fails and returns a monitor only when both have      *)
(* succeeded, so a request is served only by a monitor that has its rules   *)
(* and a requirement table that passed the schema.                          *)
C23_LoadFailureIsFatal ==
    /\ constructed = "yes" => loaded = {"regulations", "3gpp"}
    /\ constructed = "raised" =>
            (loaded # {"regulations", "3gpp"} /\ ret.call = "__init__" /\ ret.raised)
    /\ Served =>
            (/\ constructed = "yes"
             /\ Has(standards, "version")
             /\ Has(standards, "standards"))

\* the rules were loaded and the requirement table was not: no monitor
C23_Witness ==
    /\ constructed = "raised"
    /\ loaded = {"regulations"}
    /\ rules # << >>
    /\ standards # Absent

-----------------------------------------------------------------------------
(* Properties of the threads *)

\* in this step the announcer builds a message from the sample it reads
PtpBuilds ==
    /\ pc["ptp"] = "create"
    /\ pc'["ptp"] = "idle"
    /\ ret'.built

(* C24 as stated: whatever the interleaving of update_gnss_data with the    *)
(* announcer, the announcer, having read the status LOCKED, builds its      *)
(* message from a sample that classifies as LOCKED.                         *)
C24_AsStated ==
    [][PtpBuilds =>
          Classify(time_data.time_quality, time_data.uncertainty_ns) = "LOCKED"]_vars

\* thread leaves the statement at label
Leaves(thread, label) == pc[thread] = label /\ pc'[thread] # label

(* C25: with two threads in check_operation / enforce_compliance and a      *)
(* third making a report, every append adds the caller's whole verdict to   *)
(* the list as it is at that moment, so that no entry of another thread is  *)
(* lost; the last-10 window of enforce_compliance and the last-100 and      *)
(* last-50 windows of the report are each the tail of the log as it was at  *)
(* one moment between the call and its return.                              *)
C25_SerializedAppendsConsistentWindows ==
    [][/\ \A t \in Evaluators :
             /\ Leaves(t, "log_operation") =>
                    /\ operations_log' = Append(operations_log, local[t].check_result)
                    /\ Last(operations_log') =
                           CheckResult(Last(operations_log').operation,
                                       Last(operations_log').parameters)
             /\ Leaves(t, "log_violation") =>
                    /\ violations' = Append(violations, local[t].check_result)
                    /\ ~Last(violations').compliant
             /\ Leaves(t, "window") =>
                    \E k \in 1..Len(violations) :
                        /\ violations[k] = local[t].check_result
                        /\ \E n \in k..Len(violations) :
                               ret'.result.violations =
                                   SelectSeq(LastN(SubSeq(violations, 1, n), RECENT_WINDOW),
                                             LAMBDA v : v.operation = ret'.operation)
       /\ (Leaves("reporter", "recommendations") /\ Has(ret', "result")) =>
             /\ \E n \in 0..Len(operations_log) :
                    ret'.result.operations_analysis =
                        LastN(SubSeq(operations_log, 1, n), REPORT_OPERATIONS)
             /\ \E n \in 0..Len(violations) :
                    ret'.result.violations =
                        LastN(SubSeq(violations, 1, n), REPORT_VIOLATIONS)]_vars

\* both threads have logged their refused request in the audit trail and
\* loaded the same violation log, the report is between its two windows,
\* and the logs are longer than every window
C25_Witness ==
    /\ pc["main"] = "log_violation"
    /\ pc["evaluator"] = "log_violation"
    /\ local["main"].loaded_list = local["evaluator"].loaded_list
    /\ pc["reporter"] = "violations"
    /\ Len(operations_log) = ThreadHistory + 2
    /\ Len(operations_log) > REPORT_OPERATIONS
    /\ Len(violations) > REPORT_VIOLATIONS

(* C26: once the shutdown signal has been delivered, each of the three      *)
(* loops stops within one iteration: none of them carries out a second      *)
(* iteration after the signal.                                              *)
C26_AsStated == \A loop \in Loops : late[loop] <= 1

\* the violation message is among those a check_compliance call has logged
Logs(result, message) == \E i \in 1..Len(result.logged) : result.logged[i] = message

(* C27: a check_compliance call logs a timing violation iff it holds a      *)
(* sample whose uncertainty_ns is above 100, a quality violation iff it     *)
(* holds a sample whose time_quality is below 0.95, and a frequency         *)
(* violation iff it has a frequency_stability whose magnitude is above      *)
(* 0.1e-6 (100 in 1e-9); it returns True iff none of the three holds, and   *)
(* so it does with no sample and no frequency_stability.                    *)
C27_ThresholdsDecide ==
    [][ret'.call = "check_compliance" =>
          LET timing == time_data # Absent /\ time_data.uncertainty_ns > 100
              quality == time_data # Absent /\ time_data.time_quality < 950
              frequency ==
                  /\ frequency_stability # Absent
                  /\ (frequency_stability.ppb > 100 \/ frequency_stability.ppb < -100)
              success == Has(ret', "result") /\ ret'.result
          IN  /\ Logs(ret', "Timing uncertainty too high") <=> timing
              /\ Logs(ret', "Time quality below threshold") <=> quality
              /\ Logs(ret', "Frequency stability out of spec") <=> frequency
              /\ success <=> ~(timing \/ quality \/ frequency)
              /\ (time_data = Absent /\ frequency_stability = Absent) => success]_vars

\* a call that has passed a sample and a frequency_stability exactly at the
\* three limits
C27_Witness ==
    /\ ret.call = "check_compliance"
    /\ Has(ret, "result")
    /\ ret.result
    /\ time_data # Absent
    /\ time_data.uncertainty_ns = 100
    /\ time_data.time_quality = 950
    /\ frequency_stability = [ppb |-> -100]

(* C29: a check_compliance call that finds a violation appends one record,  *)
(* with action continue_monitoring, to the violation log of the compliance  *)
(* monitor, the list whose last 10 entries enforce_compliance reads; a call *)
(* that finds none appends nothing.                                         *)
C29_AsStated ==
    [][ret'.call = "check_compliance" =>
          violations' = IF ret'.logged # << >>
                        THEN Append(violations, ViolationRecord(ret'.logged))
                        ELSE violations]_vars

(* C28: once ComplianceMonitor() has run, no call changes the rules, the    *)
(* requirement table or the compliance level, and nothing is loaded a       *)
(* second time: they stay as the constructor left them.                     *)
C28_LoadedOnceThenReadOnly ==
    [][constructed # "no" =>
          /\ rules' = rules
          /\ standards' = standards
          /\ compliance_level' = compliance_level
          /\ loaded' = loaded
          /\ constructed' = constructed]_vars

\* a monitor loaded with rules and requirements as production has refused a
\* request
C28_Witness ==
    /\ constructed = "yes"
    /\ loaded = {"regulations", "3gpp"}
    /\ rules # << >>
    /\ compliance_level = "production"
    /\ ret.call = "check_operation"
    /\ violations # << >>

\* the calls that only read the manager
ReadSideCalls == {"run_ntp_server", "run_ptp_server", "check_compliance", "get_sync_info"}

(* C30: an iteration of the NTP loop, an iteration of the PTP loop,         *)
(* check_compliance and get_sync_info leave time_data, position_data and    *)
(* status as they are; a step that changes one of the three is an           *)
(* update_gnss_data call.                                                   *)
C30_ReadSideLeavesSample ==
    [][/\ ret'.call \in ReadSideCalls =>
             <<time_data, position_data, status>>' = <<time_data, position_data, status>>
       /\ <<time_data, position_data, status>>' # <<time_data, position_data, status>> =>
             ret'.call = "update_gnss_data"]_vars

\* get_sync_info returns, after the NTP loop has answered, the PTP loop has
\* built a message and check_compliance has recorded a violation, with a
\* LOCKED sample held
C30_Witness ==
    /\ ret.call = "get_sync_info"
    /\ ret.result.status = "LOCKED"
    /\ time_data # Absent
    /\ position_data # Absent
    /\ ntp_sent # << >>
    /\ sync_msg # << >>
    /\ violation_file # << >>

-----------------------------------------------------------------------------
(* Further properties of the NTP and PTP loops *)

\* byte strings a and b of equal length, read as big-endian numbers: a <= b
RECURSIVE NotLaterFrom(_, _, _)
NotLaterFrom(a, b, i) ==
    IF i > Len(a) THEN TRUE
    ELSE IF a[i] < b[i] THEN TRUE
    ELSE IF a[i] > b[i] THEN FALSE
    ELSE NotLaterFrom(a, b, i + 1)

(* C31 as stated: whatever gps_time the sample held has, a request of 48    *)
(* bytes or more never makes the building of the response fail, and in the  *)
(* response sent the receive timestamp, bytes 32..40, is not later than the *)
(* transmit timestamp, bytes 40..48.                                        *)
C31_AsStated ==
    [][(NtpStep /\ Len(ret'.recv.data) >= 48 /\ time_data # Absent /\ ret'.send_ok) =>
          /\ ret'.error = None
          /\ Len(SentInStep) = 1
          /\ NotLaterFrom(Slice(SentInStep[1].data, 32, 40),
                          Slice(SentInStep[1].data, 40, 48), 1)]_vars

\* the big-endian number that the byte string holds from byte i on, continued
\* from acc, modulo p
RECURSIVE BytesModFrom(_, _, _, _)
BytesModFrom(bytes, i, acc, p) ==
    IF i > Len(bytes) THEN acc
    ELSE BytesModFrom(bytes, i + 1, (acc * 256 + bytes[i]) % p, p)

\* primes whose product is above 2^64: two numbers below 2^64 that agree
\* modulo each of them are equal
CheckPrimes == {32707, 32713, 32717, 32719, 32749}

(* C32: every message the announcer builds has 44 bytes, byte 0 is 0x10,    *)
(* byte 1 is 0x02, bytes 8..16 hold uncertainty_ns * 10^9 of the sample     *)
(* held (0 without a sample) as a big-endian number, and every other byte   *)
(* is zero.                                                                 *)
C32_AnnouncementLayout ==
    [][(PtpStep /\ ret'.built) =>
          LET correction == IF time_data = Absent THEN 0 ELSE time_data.uncertainty_ns
          IN  /\ Len(sync_msg') = 44
              /\ sync_msg'[1] = 16
              /\ sync_msg'[2] = 2
              /\ \A i \in (3..8) \cup (17..44) : sync_msg'[i] = 0
              /\ \A i \in 9..16 : sync_msg'[i] \in 0..255
              /\ \A p \in CheckPrimes :
                     BytesModFrom(Slice(sync_msg', 8, 16), 1, 0, p) =
                         ((correction % p) * (1000000000 % p)) % p]_vars

\* a message built for a LOCKED sample of 49 ns: the correction 49 * 10^9
\* takes five bytes
C32_Witness ==
    /\ ret.call = "run_ptp_server"
    /\ ret.built
    /\ status = "LOCKED"
    /\ time_data.uncertainty_ns = 49
    /\ Slice(sync_msg, 8, 16) = <<0, 0, 0, 11, 104, 160, 170, 0>>

(* C37 as stated: whenever the announcer runs with a sample that classifies *)
(* as LOCKED, whatever its uncertainty_ns, the correction packs as an       *)
(* unsigned 64-bit field: the iteration builds its message and raises       *)
(* nothing.                                                                 *)
C37_AsStated ==
    [][(PtpStep /\ time_data # Absent /\ SyncStatusOf(time_data) = "LOCKED"
            /\ status = "LOCKED") =>
          /\ ret'.error = None
          /\ ret'.built]_vars

(* C33 as stated: an iteration of the NTP loop that ended in an error does  *)
(* not end the loop, and the request of 48 bytes or more that the next      *)
(* iteration receives is answered.  Stated for the iterations in which      *)
(* sendto succeeds; a request is handled by the one iteration that receives *)
(* it.                                                                      *)
C33_AsStated ==
    [][(/\ ret.call = "run_ntp_server"
        /\ ret.error # None
        /\ NtpStep
        /\ Len(ret'.recv.data) >= 48
        /\ ret'.send_ok) =>
          /\ ret'.error = None
          /\ Len(SentInStep) = 1]_vars

-----------------------------------------------------------------------------
(* Further properties of the monitor *)

\* the entries of the violation log for the operation of the last call
LoggedForOperation == CountOperation(violations, 1, Len(violations), ret.operation)

\* those entries are the most recent ones of the log
RunForOperation ==
    CountOperation(violations, Len(violations) - LoggedForOperation + 1,
                   Len(violations), ret.operation) = LoggedForOperation

(* C34: a non-compliant enforce_compliance call counts its own record: the  *)
(* record is the last entry of both logs and the last entry of the          *)
(* violations field of the decision; and when all entries for its operation *)
(* are the most recent ones of the log, the first and the second such call  *)
(* are answered warn and the third block.                                   *)
C34_OwnRecordCounted ==
    EnforcedNonCompliant =>
        /\ Last(violations) = Last(operations_log)
        /\ Last(violations).operation = ret.operation
        /\ Last(violations).parameters = ret.parameters
        /\ ret.result.violations # << >>
        /\ Last(ret.result.violations) = Last(violations)
        /\ RunForOperation =>
              /\ LoggedForOperation \in {1, 2} => ret.result.action = "warn"
              /\ LoggedForOperation = 3 => ret.result.action = "block"

\* the third call in a row for an operation, blocked, after a violation
\* logged for something else
C34_Witness ==
    /\ EnforcedNonCompliant
    /\ RunForOperation
    /\ LoggedForOperation = 3
    /\ Len(violations) = 4
    /\ ret.result.action = "block"
    /\ Len(ret.result.violations) = 3

\* the entries of a verdict that name a loaded rule
RuleEntries(verdict) ==
    SelectSeq(verdict.violations, LAMBDA v : v.rule_id # "3GPP_VIOLATION")

(* C35: every loaded rule judges a request alike: a verdict has either no   *)
(* rule-violation entry or one for each loaded rule, in load order and      *)
(* with that rule's id; with no rule loaded a request is non-compliant      *)
(* only through the 3GPP_VIOLATION entry, whatever its frequency and power. *)
C35_AllRulesOrNone ==
    \A n \in DOMAIN operations_log :
        LET verdict == operations_log[n]
            entries == RuleEntries(verdict)
        IN  /\ Len(entries) \in {0, Len(rules)}
            /\ \A i \in DOMAIN entries : entries[i].rule_id = rules[i].id
            /\ rules = << >> =>
                  (verdict.compliant \/ verdict.violations = <<Violation3gpp(verdict.operation)>>)

\* a verdict with an entry for each of two loaded rules, and nothing else
C35_Witness ==
    /\ Len(rules) = 2
    /\ operations_log # << >>
    /\ Len(Last(operations_log).violations) = 2
    /\ Last(operations_log).violations[1].rule_id = rules[1].id
    /\ Last(operations_log).violations[2].rule_id = rules[2].id

\* the non-compliant verdicts in the audit trail
NonCompliantLogged == { i \in DOMAIN operations_log : ~operations_log[i].compliant }

(* C36: after every call the violation log holds one entry for each         *)
(* non-compliant verdict of the audit trail and one for each                *)
(* monitor_gnss_operation call whose checks failed, and nothing else: a     *)
(* monitor_gnss_operation call adds its entry, which names the failed       *)
(* checks, only when it returns False, and no other call adds a GNSS entry; *)
(* so a report's total_violations equals non_compliant_operations exactly   *)
(* when the log holds no GNSS entry.                                        *)
C36_ViolationLogAccounting ==
    [][/\ Len(violations') =
             Cardinality(NonCompliantLogged') + Cardinality(GnssEntries')
       /\ \A i \in GnssEntries' : violations'[i].failed_checks # << >>
       /\ IF ret'.call = "monitor_gnss_operation"
          THEN /\ Cardinality(GnssEntries') - Cardinality(GnssEntries) \in {0, 1}
               /\ ret'.result => GnssEntries' = GnssEntries
               /\ operations_log' = operations_log
          ELSE GnssEntries' = GnssEntries
       /\ (ret'.call = "generate_compliance_report" /\ Has(ret', "result")) =>
             /\ ret'.result.summary.total_violations = Len(violations)
             /\ (ret'.result.summary.total_violations =
                    ret'.result.summary.non_compliant_operations) <=> (GnssEntries = {})]_vars

\* a monitor_gnss_operation call whose checks failed, on a monitor that has
\* judged requests compliant and non-compliant and has read an unreadable
\* configuration or a passing one before
C36_Witness ==
    /\ ret.call = "monitor_gnss_operation"
    /\ ~ret.result
    /\ Cardinality(GnssEntries) = 1
    /\ Len(violations) = 3
    /\ Len(operations_log) = 3

(* C38: a check_operation call with an empty parameter mapping yields a     *)
(* compliant verdict whatever the operation, the rules loaded, the          *)
(* requirement table and the compliance level: it returns True, logs one    *)
(* compliant audit entry, leaves the violation log as it was, and           *)
(* enforce_compliance on such a request answers proceed.                    *)
C38_EmptyParametersCompliant ==
    [][(ret'.call \in {"check_operation", "enforce_compliance"}
          /\ ret'.parameters = EmptyDict) =>
            /\ Len(operations_log') = Len(operations_log) + 1
            /\ Last(operations_log').compliant
            /\ Last(operations_log').violations = << >>
            /\ violations' = violations
            /\ ret'.call = "check_operation" => ret'.result = TRUE
            /\ ret'.call = "enforce_compliance" =>
                    ret'.result.allowed /\ ret'.result.action = "proceed"]_vars

\* enforce_compliance on an empty request for an operation that has a
\* requirement table, with both rules loaded
C38_Witness ==
    /\ ret.call = "enforce_compliance"
    /\ ret.parameters = EmptyDict
    /\ Len(rules) = 2
    /\ Has(Requirements, ret.operation)
    /\ ret.result.action = "proceed"

-----------------------------------------------------------------------------
(* SpecModules: the framework starts and stops modules, by registered name  *)
(* and by a name it does not know, with and without keyword arguments,      *)
(* while the threads it has spawned run.                                    *)

MaxStarts == 2

\* three registered modules and a name that is not registered
ModuleNames == {"gnss", "sim_swap", "compliance", "radar"}

InitModules ==
    /\ compliance_level \in ComplianceLevel
    /\ rules \in { << >>, <<RuleCatalog[1]>> }
    /\ standards = PowerRequirements
    /\ operations_log = << >>
    /\ violations = << >>
    /\ SyncInit
    /\ ProcessInit
    /\ ret = NoCall

ModulesStart ==
    /\ Len(operations_log) < MaxStarts
    /\ \E module_name \in ModuleNames, kwargs \in CallParameters :
            StartModuleCheck(module_name, kwargs)

ModulesStarting == StartModuleStarting

ModulesRun == \E raised \in BOOLEAN : StartModuleRun(raised)

ModulesRunCompliance == \E config \in GnssConfigs : RunCompliance(config)

ModulesStop == \E module_name \in ModuleNames : StopModule(module_name)

NextModules ==
    \/ ModulesStart
    \/ ModulesStarting
    \/ ModulesRun
    \/ ModulesRunCompliance
    \/ ModulesStop

SpecModules == InitModules /\ [][NextModules]_vars

\* the step is one in which the named call returns
Returns(call) == ret'.call = call /\ Has(ret', "result") /\ pc'["main"] = "idle"

\* every module but module_name keeps its record
OthersKept(module_name) ==
    \A other \in DOMAIN modules \ {module_name} : modules'[other] = modules[other]

(* C39: start_module on an unknown name returns False and changes no module *)
(* record; on a registered module whose check_operation('start_<name>')     *)
(* verdict is non-compliant it returns False from the check itself, with    *)
(* the status COMPLIANCE_FAILED and without the module having been STARTING *)
(* or RUNNING in the call; otherwise it returns from STARTING, with RUNNING *)
(* and True or with ERROR and False.  A module becomes STARTING or RUNNING  *)
(* only in a start_module call on it whose verdict, the newest audit entry, *)
(* is compliant, and stop_module leaves a registered module STOPPED and     *)
(* returns True.                                                            *)
C39_ModuleLifecycle ==
    [][/\ Returns("start_module") =>
            LET module_name == ret'.module_name
            IN  IF module_name \notin DOMAIN modules
                THEN ~ret'.result /\ modules' = modules /\ pc["main"] = "idle"
                ELSE IF pc["main"] = "idle"
                THEN /\ ~ret'.result
                     /\ modules'[module_name].status = "COMPLIANCE_FAILED"
                     /\ Len(operations_log') = Len(operations_log) + 1
                     /\ ~Last(operations_log').compliant
                     /\ Last(operations_log').operation = StartOperation(module_name)
                     /\ OthersKept(module_name)
                ELSE /\ modules[module_name].status = "STARTING"
                     /\ Last(operations_log).compliant
                     /\ Last(operations_log).operation = StartOperation(module_name)
                     /\ \/ modules'[module_name].status = "RUNNING" /\ ret'.result
                        \/ modules'[module_name].status = "ERROR" /\ ~ret'.result
                     /\ OthersKept(module_name)
       /\ \A module_name \in DOMAIN modules :
            (/\ modules'[module_name].status \in {"STARTING", "RUNNING"}
             /\ modules'[module_name].status # modules[module_name].status) =>
                /\ pc["main"] \in {"starting", "run"}
                /\ local["main"].module_name = module_name
                /\ Last(operations_log).compliant
                /\ Last(operations_log).operation = StartOperation(module_name)
       /\ Returns("stop_module") =>
            IF ret'.module_name \in DOMAIN modules
            THEN /\ ret'.result
                 /\ modules'[ret'.module_name].status = "STOPPED"
                 /\ OthersKept(ret'.module_name)
            ELSE ~ret'.result /\ modules' = modules]_vars

\* a refused start of 'gnss' after a start of 'compliance' that raised
C39_Witness ==
    /\ ret.call = "start_module"
    /\ Has(ret, "result")
    /\ ret.module_name = "gnss"
    /\ ~ret.result
    /\ modules["gnss"].status = "COMPLIANCE_FAILED"
    /\ modules["compliance"].status = "ERROR"
    /\ modules["sim_swap"].status = "STOPPED"


====
